---------------------------- MODULE Spec2Model ----------------------------
(***************************************************************************)
(* A model of Aws::SignApi (AWS Signature Version 4): the construction of  *)
(* the canonical request, of the string to sign and of the Authorization   *)
(* header value.                                                           *)
(*                                                                         *)
(* A std::string is a sequence of one-character strings, compared byte by  *)
(* byte through the ASCII code of each character.                          *)
(***************************************************************************)
EXTENDS Integers, Sequences, FiniteSets, TLC

(***************************************************************************)
(* Characters and strings                                                  *)
(***************************************************************************)

\* The ASCII code of every character the model's strings are made of.
Ascii ==
    ("\t" :> 9) @@ ("\n" :> 10) @@ ("\r" :> 13) @@ (" " :> 32) @@
    ("%" :> 37) @@ ("<" :> 60) @@ (">" :> 62) @@ ("[" :> 91) @@ ("]" :> 93) @@
    ("&" :> 38) @@ ("+" :> 43) @@ ("," :> 44) @@ ("-" :> 45) @@
    ("." :> 46) @@ ("/" :> 47) @@ ("0" :> 48) @@ ("1" :> 49) @@
    ("2" :> 50) @@ ("3" :> 51) @@ ("4" :> 52) @@ ("5" :> 53) @@
    ("6" :> 54) @@ ("7" :> 55) @@ ("8" :> 56) @@ ("9" :> 57) @@
    (":" :> 58) @@ (";" :> 59) @@ ("=" :> 61) @@ ("?" :> 63) @@
    ("A" :> 65) @@ ("B" :> 66) @@ ("C" :> 67) @@ ("D" :> 68) @@
    ("E" :> 69) @@ ("F" :> 70) @@ ("G" :> 71) @@ ("H" :> 72) @@
    ("I" :> 73) @@ ("J" :> 74) @@ ("K" :> 75) @@ ("L" :> 76) @@
    ("M" :> 77) @@ ("N" :> 78) @@ ("O" :> 79) @@ ("P" :> 80) @@
    ("Q" :> 81) @@ ("R" :> 82) @@ ("S" :> 83) @@ ("T" :> 84) @@
    ("U" :> 85) @@ ("V" :> 86) @@ ("W" :> 87) @@ ("X" :> 88) @@
    ("Y" :> 89) @@ ("Z" :> 90) @@ ("_" :> 95) @@ ("a" :> 97) @@
    ("b" :> 98) @@ ("c" :> 99) @@ ("d" :> 100) @@ ("e" :> 101) @@
    ("f" :> 102) @@ ("g" :> 103) @@ ("h" :> 104) @@ ("i" :> 105) @@
    ("j" :> 106) @@ ("k" :> 107) @@ ("l" :> 108) @@ ("m" :> 109) @@
    ("n" :> 110) @@ ("o" :> 111) @@ ("p" :> 112) @@ ("q" :> 113) @@
    ("r" :> 114) @@ ("s" :> 115) @@ ("t" :> 116) @@ ("u" :> 117) @@
    ("v" :> 118) @@ ("w" :> 119) @@ ("x" :> 120) @@ ("y" :> 121) @@
    ("z" :> 122)

\* The character with the given ASCII code.
Chr(n) == CHOOSE c \in DOMAIN Ascii : Ascii[c] = n

\* std::string::operator< : lexicographic comparison of the bytes.
RECURSIVE StrLess(_, _)
StrLess(a, b) ==
    IF b = <<>> THEN FALSE
    ELSE IF a = <<>> THEN TRUE
    ELSE IF Ascii[Head(a)] < Ascii[Head(b)] THEN TRUE
    ELSE IF Ascii[Head(a)] > Ascii[Head(b)] THEN FALSE
    ELSE StrLess(Tail(a), Tail(b))

\* std::string::substr(pos, n), for pos <= size (beyond that it throws).
Substr(s, pos, n) ==
    SubSeq(s, pos + 1, IF pos + n > Len(s) THEN Len(s) ELSE pos + n)

\* std::string::substr(pos): the rest of the string from pos.
SubstrFrom(s, pos) == SubSeq(s, pos + 1, Len(s))

\* std::string::find(c): the offset of the first c in s, or -1 (npos).
Find(s, c) ==
    IF \E i \in 1..Len(s) : s[i] = c
    THEN (CHOOSE i \in 1..Len(s) : s[i] = c /\ \A j \in 1..(i - 1) : s[j] # c) - 1
    ELSE -1

\* std::string::find_last_of(c): the offset of the last c in s, or -1 (npos).
FindLastOf(s, c) ==
    IF \E i \in 1..Len(s) : s[i] = c
    THEN (CHOOSE i \in 1..Len(s) : s[i] = c /\ \A j \in (i + 1)..Len(s) : s[j] # c) - 1
    ELSE -1

\* SystemAbstractions::Split: the pieces of s between the delimiters d.  An
\* empty piece before or between delimiters is kept; nothing follows a
\* trailing delimiter, and the empty string has no pieces.
RECURSIVE Split(_, _)
Split(s, d) ==
    IF s = <<>> THEN <<>>
    ELSE LET delimiter == Find(s, d) IN
         IF delimiter = -1 THEN <<s>>
         ELSE <<Substr(s, 0, delimiter)>> \o Split(SubstrFrom(s, delimiter + 1), d)

\* SystemAbstractions::Join: the strings of v with d between neighbours.
RECURSIVE Join(_, _)
Join(v, d) ==
    IF v = <<>> THEN <<>>
    ELSE IF Len(v) = 1 THEN v[1]
    ELSE v[1] \o d \o Join(Tail(v), d)

\* tolower() of one character.
ToLowerChar(c) ==
    IF Ascii[c] >= 65 /\ Ascii[c] <= 90 THEN Chr(Ascii[c] + 32) ELSE c

\* SystemAbstractions::ToLower: every character lower-cased.
ToLower(s) == [i \in 1..Len(s) |-> ToLowerChar(s[i])]

\* One step of std::sort: x put into the sorted vector v after its first k
\* elements, k being the number of elements x is not less than.  Elements
\* that the order does not separate are equal in every field the order reads.
SortedInsert(x, v, k) ==
    SubSeq(v, 1, k) \o <<x>> \o SubSeq(v, k + 1, Len(v))

(***************************************************************************)
(* The Hash library (SHA-256 and HMAC), which SignApi uses as a black box. *)
(* The model keeps what SignApi relies on: a digest is a function of all   *)
(* the bytes and of their order, an HMAC depends on the key and on the     *)
(* message, and the string form of a digest is lower-case hexadecimal with *)
(* two digits per byte.  The digest is two bytes wide instead of 32.       *)
(***************************************************************************)

\* The bytes of a string.
Bytes(s) == [i \in 1..Len(s) |-> Ascii[s[i]]]

\* The digest of the bytes b as a number: the digests of the two halves of
\* b, combined with different weights, so that it depends on every byte
\* and on the order of the bytes.
RECURSIVE Digest(_)
Digest(b) ==
    IF b = <<>> THEN 7
    ELSE IF Len(b) = 1 THEN (b[1] * 31 + 11) % 65536
    ELSE LET half == Len(b) \div 2
         IN  (Digest(SubSeq(b, 1, half)) * 257
                  + Digest(SubSeq(b, half + 1, Len(b))) * 31 + Len(b)) % 65536

\* Hash::Sha256: the digest of a byte sequence, as bytes.
Sha256(b) ==
    LET h == Digest(b) IN <<h \div 256, h % 256>>

\* The lower-case hexadecimal digits.
HexDigits ==
    <<"0", "1", "2", "3", "4", "5", "6", "7",
      "8", "9", "a", "b", "c", "d", "e", "f">>

\* Hash::BytesToString: two lower-case hexadecimal digits per byte.
RECURSIVE HexString(_)
HexString(b) ==
    IF b = <<>> THEN <<>>
    ELSE <<HexDigits[(Head(b) \div 16) + 1], HexDigits[(Head(b) % 16) + 1]>>
         \o HexString(Tail(b))

\* Hash::StringToString< Hash::Sha256 >: the hex digest of a string.
Sha256StringToString(s) == HexString(Sha256(Bytes(s)))

\* The HMAC construction over Sha256: the digest of the key combined with
\* the outer pad, followed by the digest of the key combined with the inner
\* pad, followed by the message.
Hmac(key, message) ==
    LET outer == [i \in 1..Len(key) |-> (key[i] + 92) % 256]
        inner == [i \in 1..Len(key) |-> (key[i] + 54) % 256]
    IN  Sha256(outer \o Sha256(inner \o message))

\* Hash::MakeHmacStringToBytesFunction: key and message given as strings.
hmacRawStringToBytes(key, message) == Hmac(Bytes(key), Bytes(message))

\* Hash::MakeHmacBytesToBytesFunction: key and message given as bytes.
hmacBytesToBytes(key, message) == Hmac(key, message)

\* Hash::MakeHmacBytesToStringFunction: the HMAC as a hex string.
hmacBytesToHexString(key, message) == HexString(Hmac(key, message))

(***************************************************************************)
(* SignApi.cpp                                                             *)
(***************************************************************************)

\* The identifier of the hash algorithm: "AWS4-HMAC-SHA256".
HASH_ALGORITHM ==
    <<"A", "W", "S", "4", "-", "H", "M", "A", "C", "-",
      "S", "H", "A", "2", "5", "6">>

\* CanonicalizeSpaces: one pass over s that writes a space only when the
\* character before it was not a space, and every other character as it is.
RECURSIVE CanonicalizeSpacesFrom(_, _)
CanonicalizeSpacesFrom(s, lastCharWasSpace) ==
    IF s = <<>> THEN <<>>
    ELSE IF Head(s) = " "
         THEN IF ~lastCharWasSpace
              THEN <<" ">> \o CanonicalizeSpacesFrom(Tail(s), TRUE)
              ELSE CanonicalizeSpacesFrom(Tail(s), TRUE)
         ELSE <<Head(s)>> \o CanonicalizeSpacesFrom(Tail(s), FALSE)

\* CanonicalizeSpaces that writes every space it reads.
CanonicalizeSpaces_KeepRuns(s) == s

\* CanonicalizeSpaces that forgets, after a space it skipped, that the last
\* character was a space: it writes every other space of a run.
RECURSIVE CanonicalizeSpaces_HalveRunsFrom(_, _)
CanonicalizeSpaces_HalveRunsFrom(s, lastCharWasSpace) ==
    IF s = <<>> THEN <<>>
    ELSE IF Head(s) = " "
         THEN IF ~lastCharWasSpace
              THEN <<" ">> \o CanonicalizeSpaces_HalveRunsFrom(Tail(s), TRUE)
              ELSE CanonicalizeSpaces_HalveRunsFrom(Tail(s), FALSE)
         ELSE <<Head(s)>> \o CanonicalizeSpaces_HalveRunsFrom(Tail(s), FALSE)

CanonicalizeSpaces_HalveRuns(s) == CanonicalizeSpaces_HalveRunsFrom(s, FALSE)

CanonicalizeSpaces(s) == CanonicalizeSpacesFrom(s, FALSE)

\* The characters MessageHeaders strips from the margins of a header value.
WSP == {" ", "\t"}

\* MessageHeaders' StripMarginWhitespace: s without the white space before
\* its first and after its last other character.
RECURSIVE StripMarginWhitespace(_)
StripMarginWhitespace(s) ==
    IF s = <<>> THEN <<>>
    ELSE IF Head(s) \in WSP THEN StripMarginWhitespace(Tail(s))
    ELSE IF s[Len(s)] \in WSP THEN StripMarginWhitespace(SubSeq(s, 1, Len(s) - 1))
    ELSE s

\* "HTTP/1.1", the only protocol the server's parser accepts.
HTTP_1_1 == <<"H", "T", "T", "P", "/", "1", ".", "1">>

\* Http::Server::ParseRequest: no request (nullptr, here the empty sequence)
\* when the request line has no method or names another protocol; else the
\* request, each header's value stripped of the white space in its margins.
ParseRequest(rawRequest) ==
    IF rawRequest.method = <<>> \/ rawRequest.protocol # HTTP_1_1
    THEN <<>>
    ELSE <<[method   |-> rawRequest.method,
            path     |-> rawRequest.path,
            hasQuery |-> rawRequest.hasQuery,
            query    |-> rawRequest.query,
            headers  |-> [i \in 1..Len(rawRequest.headers) |->
                            [name  |-> rawRequest.headers[i].name,
                             value |-> StripMarginWhitespace(
                                           rawRequest.headers[i].value)]],
            body     |-> rawRequest.body]>>

\* Uri::GenerateString of a URI that holds only a path: the segments joined
\* by "/"; the root path, whose only segment is empty, is "/".  The model's
\* paths are normalised and made of unreserved characters, which
\* NormalizePath and the percent-encoding leave as they are.
GeneratePathString(path) ==
    IF path = <<<<>>>> THEN <<"/">> ELSE Join(path, <<"/">>)

\* Uri::GenerateString of a URI that holds only a query: "?" and the query.
\* The model's queries are made of unreserved characters, "&" and "=",
\* which the percent-encoding leaves as they are.
GenerateQueryString(query) == <<"?">> \o query

\* Step 3, the loop over the pieces of the query: a piece without "=" is a
\* name with the empty value; else the name is what precedes the first "="
\* and the value is what follows it.
ParseParameter(parameter) ==
    LET delimiter == Find(parameter, "=") IN
    IF delimiter = -1
    THEN [name |-> parameter, value |-> <<>>]
    ELSE [name  |-> Substr(parameter, 0, delimiter),
          value |-> SubstrFrom(parameter, delimiter + 1)]

\* Step 3, the comparison std::sort orders the parameters by: by name and,
\* for equal names, by value.
ParameterLess(lhs, rhs) ==
    IF StrLess(lhs.name, rhs.name) THEN TRUE
    ELSE IF StrLess(rhs.name, lhs.name) THEN FALSE
    ELSE StrLess(lhs.value, rhs.value)

\* Step 3, std::sort of parametersVector.
RECURSIVE SortParameters(_)
SortParameters(v) ==
    IF v = <<>> THEN <<>>
    ELSE LET sorted == SortParameters(Tail(v))
             k == Cardinality({i \in 1..Len(sorted) :
                                  ~ParameterLess(Head(v), sorted[i])})
         IN  SortedInsert(Head(v), sorted, k)

\* Step 3: the canonical query line (without its line break).
CanonicalQueryString(request) ==
    IF request.hasQuery
    THEN LET generated == GenerateQueryString(request.query)
             requestQueryEncoded ==
                 IF Len(generated) > 0 THEN SubstrFrom(generated, 1)
                 ELSE generated
             parametersString == Split(requestQueryEncoded, "&")
             parametersVector ==
                 SortParameters([i \in 1..Len(parametersString) |->
                                    ParseParameter(parametersString[i])])
         IN  Join([i \in 1..Len(parametersVector) |->
                      parametersVector[i].name \o <<"=">>
                          \o parametersVector[i].value],
                  <<"&">>)
    ELSE <<>>

\* HeadersByNameFrom with the header's name as the key, in the case given.
RECURSIVE HeadersByNameFrom_CaseSensitive(_, _)
HeadersByNameFrom_CaseSensitive(m, headers) ==
    IF headers = <<>> THEN m
    ELSE LET key   == Head(headers).name
             value == CanonicalizeSpaces(Head(headers).value)
         IN  HeadersByNameFrom_CaseSensitive(
                 IF key \in DOMAIN m
                 THEN [m EXCEPT ![key] = Append(@, value)]
                 ELSE m @@ (key :> <<value>>),
                 Tail(headers))

\* HeadersByNameFrom with each value assigned to its key's entry instead of
\* pushed at the back of it.
RECURSIVE HeadersByNameFrom_LastWins(_, _)
HeadersByNameFrom_LastWins(m, headers) ==
    IF headers = <<>> THEN m
    ELSE LET key   == ToLower(Head(headers).name)
             value == CanonicalizeSpaces(Head(headers).value)
         IN  HeadersByNameFrom_LastWins(
                 IF key \in DOMAIN m
                 THEN [m EXCEPT ![key] = <<value>>]
                 ELSE m @@ (key :> <<value>>),
                 Tail(headers))

\* Step 4, the first loop: the std::map headersByName after the headers
\* given, starting from the map m.  The key is the lower-cased name; the
\* value, with its spaces canonicalized, is pushed at the back of the key's
\* vector, which operator[] creates empty when the key is new.
RECURSIVE HeadersByNameFrom(_, _)
HeadersByNameFrom(m, headers) ==
    IF headers = <<>> THEN m
    ELSE LET key   == ToLower(Head(headers).name)
             value == CanonicalizeSpaces(Head(headers).value)
         IN  HeadersByNameFrom(
                 IF key \in DOMAIN m
                 THEN [m EXCEPT ![key] = Append(@, value)]
                 ELSE m @@ (key :> <<value>>),
                 Tail(headers))

\* The keys of a std::map in the order its iteration visits them: ascending.
RECURSIVE MapKeysInOrder(_)
MapKeysInOrder(keys) ==
    IF keys = {} THEN <<>>
    ELSE LET least == CHOOSE k \in keys : \A o \in keys \ {k} : StrLess(k, o)
         IN  <<least>> \o MapKeysInOrder(keys \ {least})

\* Step 4, the comparison std::sort orders the headers by: by name.
HeaderLess(lhs, rhs) == StrLess(lhs.name, rhs.name)

\* Step 4, std::sort of headersVector.
RECURSIVE SortHeaders(_)
SortHeaders(v) ==
    IF v = <<>> THEN <<>>
    ELSE LET sorted == SortHeaders(Tail(v))
             k == Cardinality({i \in 1..Len(sorted) :
                                  ~HeaderLess(Head(v), sorted[i])})
         IN  SortedInsert(Head(v), sorted, k)

\* Step 4: headersVector, filled from the map in the map's order and sorted.
HeadersVector(request) ==
    LET headersByName == HeadersByNameFrom(<<>>, request.headers)
        keys == MapKeysInOrder(DOMAIN headersByName)
    IN  SortHeaders([i \in 1..Len(keys) |->
                        [name |-> keys[i], values |-> headersByName[keys[i]]]])

\* Step 4, the output loop: one line "name:value,value" per header, each
\* ended by a line break.
RECURSIVE CanonicalHeaders(_)
CanonicalHeaders(headersVector) ==
    IF headersVector = <<>> THEN <<>>
    ELSE Head(headersVector).name \o <<":">>
             \o Join(Head(headersVector).values, <<",">>) \o <<"\n">>
             \o CanonicalHeaders(Tail(headersVector))

\* Step 5: the names of headersVector with ";" between them.
RECURSIVE SignedHeaders(_, _)
SignedHeaders(headersVector, first) ==
    IF headersVector = <<>> THEN <<>>
    ELSE (IF first THEN <<>> ELSE <<";">>) \o Head(headersVector).name
             \o SignedHeaders(Tail(headersVector), FALSE)

\* ConstructCanonicalRequest without the return for a request that did not
\* parse: it goes on as with a request whose every field is empty.
ConstructCanonicalRequest_NoEarlyReturn(rawRequest) ==
    LET parsed == ParseRequest(rawRequest)
        request == IF parsed = <<>>
                   THEN [method |-> <<>>, path |-> <<>>, hasQuery |-> FALSE,
                         query |-> <<>>, headers |-> <<>>, body |-> <<>>]
                   ELSE parsed[1]
        headersVector == HeadersVector(request)
    IN  request.method \o <<"\n">>
            \o GeneratePathString(request.path) \o <<"\n">>
            \o CanonicalQueryString(request) \o <<"\n">>
            \o CanonicalHeaders(headersVector) \o <<"\n">>
            \o SignedHeaders(headersVector, TRUE) \o <<"\n">>
            \o Sha256StringToString(request.body)

\* SignApi::ConstructCanonicalRequest.
ConstructCanonicalRequest(rawRequest) ==
    LET parsed == ParseRequest(rawRequest) IN
    IF parsed = <<>> THEN <<>>
    ELSE LET request == parsed[1]
             headersVector == HeadersVector(request)
         IN  request.method \o <<"\n">>
                 \o GeneratePathString(request.path) \o <<"\n">>
                 \o CanonicalQueryString(request) \o <<"\n">>
                 \o CanonicalHeaders(headersVector) \o <<"\n">>
                 \o SignedHeaders(headersVector, TRUE) \o <<"\n">>
                 \o Sha256StringToString(request.body)

\* "x-amz-date:", the start of the line MakeStringToSign looks for.
X_AMZ_DATE_PREFIX ==
    <<"x", "-", "a", "m", "z", "-", "d", "a", "t", "e", ":">>

\* "/aws4_request" and a line break, the end of the credential scope line.
AWS4_REQUEST_LINE ==
    <<"/", "a", "w", "s", "4", "_", "r", "e", "q", "u", "e", "s", "t", "\n">>

\* FindDateTime without the break: the last line that starts with
\* "x-amz-date:" decides.
RECURSIVE FindDateTime_LastMatch(_)
FindDateTime_LastMatch(lines) ==
    IF lines = <<>> THEN <<>>
    ELSE IF Substr(lines[Len(lines)], 0, 11) = X_AMZ_DATE_PREFIX
         THEN SubstrFrom(lines[Len(lines)], 11)
         ELSE FindDateTime_LastMatch(SubSeq(lines, 1, Len(lines) - 1))

\* MakeStringToSign's loop: what follows "x-amz-date:" on the first of the
\* lines that starts with it; the empty string when no line does.
RECURSIVE FindDateTime(_)
FindDateTime(lines) ==
    IF lines = <<>> THEN <<>>
    ELSE IF Substr(Head(lines), 0, 11) = X_AMZ_DATE_PREFIX
         THEN SubstrFrom(Head(lines), 11)
         ELSE FindDateTime(Tail(lines))

\* MakeStringToSign that returns the empty string when no line starts with
\* "x-amz-date:".
MakeStringToSign_EmptyWithoutDate(region, service, canonicalRequest) ==
    LET lines == Split(canonicalRequest, "\n") IN
    IF \A i \in 1..Len(lines) : Substr(lines[i], 0, 11) # X_AMZ_DATE_PREFIX
    THEN <<>>
    ELSE HASH_ALGORITHM \o <<"\n">>
            \o FindDateTime(lines) \o <<"\n">>
            \o Substr(FindDateTime(lines), 0, 8) \o <<"/">> \o region \o <<"/">>
            \o service \o AWS4_REQUEST_LINE
            \o Sha256StringToString(canonicalRequest)

\* MakeStringToSign that writes the service before the region.
MakeStringToSign_ServiceBeforeRegion(region, service, canonicalRequest) ==
    LET dateTime == FindDateTime(Split(canonicalRequest, "\n"))
    IN  HASH_ALGORITHM \o <<"\n">>
            \o dateTime \o <<"\n">>
            \o Substr(dateTime, 0, 8) \o <<"/">> \o service \o <<"/">>
            \o region \o AWS4_REQUEST_LINE
            \o Sha256StringToString(canonicalRequest)

\* SignApi::MakeStringToSign.
MakeStringToSign(region, service, canonicalRequest) ==
    LET dateTime == FindDateTime(Split(canonicalRequest, "\n"))
    IN  HASH_ALGORITHM \o <<"\n">>
            \o dateTime \o <<"\n">>
            \o Substr(dateTime, 0, 8) \o <<"/">> \o region \o <<"/">>
            \o service \o AWS4_REQUEST_LINE
            \o Sha256StringToString(canonicalRequest)

\* "AWS4", which precedes the secret in the first key of the HMAC chain.
AWS4 == <<"A", "W", "S", "4">>

\* " Credential=", ", SignedHeaders=" and ", Signature=".
CREDENTIAL_LABEL ==
    <<" ", "C", "r", "e", "d", "e", "n", "t", "i", "a", "l", "=">>

SIGNED_HEADERS_LABEL ==
    <<",", " ", "S", "i", "g", "n", "e", "d", "H", "e", "a", "d", "e", "r",
      "s", "=">>

SIGNATURE_LABEL ==
    <<",", " ", "S", "i", "g", "n", "a", "t", "u", "r", "e", "=">>

\* Whether every element MakeAuthorization reads of a vector exists: the
\* third line of the string to sign, the first four parts of that line, and
\* the line before the last of the canonical request (at size() - 2, an
\* unsigned index that wraps around when there are fewer than two lines).
MakeAuthorizationInBounds(stringToSign, canonicalRequest) ==
    /\ Len(Split(stringToSign, "\n")) >= 3
    /\ Len(Split(Split(stringToSign, "\n")[3], "/")) >= 4
    /\ Len(Split(canonicalRequest, "\n")) >= 2

\* Signature with the service fed to the HMAC chain before the region.
Signature_ServiceBeforeRegion(stringToSign, accessKeySecret) ==
    LET credentialScopeParts == Split(Split(stringToSign, "\n")[3], "/")
        signingKey ==
            hmacBytesToBytes(
                hmacBytesToBytes(
                    hmacBytesToBytes(
                        hmacRawStringToBytes(AWS4 \o accessKeySecret,
                                             credentialScopeParts[1]),
                        Bytes(credentialScopeParts[3])),
                    Bytes(credentialScopeParts[2])),
                Bytes(credentialScopeParts[4]))
    IN  hmacBytesToHexString(signingKey, Bytes(stringToSign))

\* The signing key and the signature MakeAuthorization computes from the
\* string to sign, whose third line has at least four parts.
Signature(stringToSign, accessKeySecret) ==
    LET credentialScopeParts == Split(Split(stringToSign, "\n")[3], "/")
        date == credentialScopeParts[1]
        region == credentialScopeParts[2]
        service == credentialScopeParts[3]
        terminationString == credentialScopeParts[4]
        signingKey ==
            hmacBytesToBytes(
                hmacBytesToBytes(
                    hmacBytesToBytes(
                        hmacRawStringToBytes(AWS4 \o accessKeySecret, date),
                        Bytes(region)),
                    Bytes(service)),
                Bytes(terminationString))
    IN  hmacBytesToHexString(signingKey, Bytes(stringToSign))

\* The output statement of MakeAuthorization, given the line it read from
\* the canonical request as the signed headers.
AuthorizationOutput(stringToSign, headersLine, accessKeyId, accessKeySecret) ==
    HASH_ALGORITHM
        \o CREDENTIAL_LABEL \o accessKeyId \o <<"/">>
        \o Split(stringToSign, "\n")[3]
        \o SIGNED_HEADERS_LABEL \o headersLine
        \o SIGNATURE_LABEL \o Signature(stringToSign, accessKeySecret)

\* MakeAuthorization that takes the last line of the canonical request as
\* the signed headers.
MakeAuthorization_LastLine(stringToSign, canonicalRequest, accessKeyId, accessKeySecret) ==
    LET canonicalRequestLines == Split(canonicalRequest, "\n")
    IN  AuthorizationOutput(
            stringToSign,
            canonicalRequestLines[Len(canonicalRequestLines)],
            accessKeyId, accessKeySecret)

\* SignApi::MakeAuthorization, when every element it reads exists.
MakeAuthorization(stringToSign, canonicalRequest, accessKeyId, accessKeySecret) ==
    LET canonicalRequestLines == Split(canonicalRequest, "\n")
    IN  AuthorizationOutput(
            stringToSign,
            canonicalRequestLines[Len(canonicalRequestLines) - 1],
            accessKeyId, accessKeySecret)

(***************************************************************************)
(* S3.cpp: ParseTimestamp.  The fields are C ints, 32 bits wide.  A sum    *)
(* past INT_MAX is undefined behaviour: the model carries the value a      *)
(* two's complement machine leaves and the fact that the sum overflowed,   *)
(* and the caller of ParseTimestamp chooses among the outcomes.            *)
(***************************************************************************)

\* The largest int.
INT_MAX == 2147483647

\* a + b in an int, for b >= 0, and whether the sum overflowed.
AddInt(a, b) ==
    IF a.value > INT_MAX - b
    THEN [value |-> ((a.value - INT_MAX) - 1) + ((b - INT_MAX) - 1),
          overflowed |-> TRUE]
    ELSE [value |-> a.value + b, overflowed |-> a.overflowed]

IsDigit(c) == Ascii[c] >= 48 /\ Ascii[c] <= 57

\* The number of digits of s from position pos (counted from 1) on.
RECURSIVE DigitsAt(_, _)
DigitsAt(s, pos) ==
    IF pos > Len(s) \/ ~IsDigit(s[pos]) THEN 0 ELSE 1 + DigitsAt(s, pos + 1)

\* The decimal number the digits of s spell.
RECURSIVE DecimalValue(_)
DecimalValue(s) ==
    IF s = <<>> THEN 0
    ELSE DecimalValue(SubSeq(s, 1, Len(s) - 1)) * 10 + (Ascii[s[Len(s)]] - 48)

\* sscanf with a format of %d conversions, each but the last followed by one
\* literal character: the numbers converted, in order.  The scan stops at
\* the first conversion that finds no digit and at the first literal that
\* does not match.  (The timestamps of the model carry no sign and no
\* white space.)
RECURSIVE ScanNumbers(_, _, _)
ScanNumbers(s, pos, literals) ==
    LET n == DigitsAt(s, pos) IN
    IF n = 0 THEN <<>>
    ELSE <<DecimalValue(SubSeq(s, pos, pos + n - 1))>>
         \o (IF literals = <<>> THEN <<>>
             ELSE IF pos + n > Len(s) \/ s[pos + n] # Head(literals) THEN <<>>
             ELSE ScanNumbers(s, pos + n + 1, Tail(literals)))

\* sscanf(timestamp, "%d-%d-%dT%d:%d:%d.%dZ", ...).
ScanTimestamp(timestamp) ==
    ScanNumbers(timestamp, 1, <<"-", "-", "T", ":", ":", ".">>)

isLeapYear(year) ==
    IF (year % 4) # 0 THEN FALSE
    ELSE IF (year % 100) # 0 THEN TRUE
    ELSE (year % 400) = 0

daysPerMonth == <<31, 28, 31, 30, 31, 30, 31, 31, 30, 31, 30, 31>>

\* The loop over the years before years, from yy on: over the first half of
\* them and, from the sum they leave, over the rest.
RECURSIVE AddYears(_, _, _)
AddYears(seconds, yy, years) ==
    IF yy >= years THEN seconds
    ELSE IF yy + 1 = years
    THEN AddInt(seconds, (IF isLeapYear(yy) THEN 366 ELSE 365) * 86400)
    ELSE LET half == (yy + years) \div 2
             first == AddYears(seconds, yy, half)
         IN  CASE first.overflowed \in BOOLEAN ->
                  AddYears(first, half, years)

\* The loop over the months before months, from mm on.
RECURSIVE AddMonths(_, _, _, _)
AddMonths(seconds, mm, months, years) ==
    IF mm < months
    THEN LET month == AddInt(seconds, daysPerMonth[mm] * 86400)
             leap == IF mm = 2 /\ isLeapYear(years)
                     THEN AddInt(month, 86400)
                     ELSE month
         IN  AddMonths(leap, mm + 1, months, years)
    ELSE seconds

\* ParseTimestamp after its sscanf, f being the seven ints in the order of
\* the format: the double it returns, as its int of whole seconds and its
\* milliseconds.
ParseTimestampFields(f) ==
    LET start == [value |-> f[6], overflowed |-> FALSE]
        withYears == AddYears(start, 1970, f[1])
        withMonths == AddMonths(withYears, 1, f[2], f[1])
        withDays == AddInt(withMonths, (f[3] - 1) * 86400)
        withHours == AddInt(withDays, f[4] * 3600)
        withMinutes == AddInt(withHours, f[5] * 60)
    IN  [seconds |-> withMinutes.value,
         overflowed |-> withMinutes.overflowed,
         milliseconds |-> f[7]]

\* ParseTimestamp of a timestamp whose seven numbers sscanf converts.
ParseTimestamp(timestamp) == ParseTimestampFields(ScanTimestamp(timestamp))

(***************************************************************************)
(* Json::Value, as Config and S3 use it.  A value is null, a string, an    *)
(* object (its members by name) or an array (its elements in order).  A    *)
(* Json::Value* that points into a tree is the path to the value it points *)
(* at: the member names and element indices from the root down.            *)
(***************************************************************************)

JsonNull == [type |-> "Null"]

JsonString(s) == [type |-> "String", value |-> s]

JsonObject(members) == [type |-> "Object", members |-> members]

JsonArray(elements) == [type |-> "Array", elements |-> elements]

\* Json::Object({}).
EmptyObject == JsonObject([k \in {} |-> JsonNull])

\* The object with the member key set to value, the others as they are.
ObjectSet(object, key, value) ==
    JsonObject([k \in (DOMAIN object.members) \cup {key} |->
                   IF k = key THEN value ELSE object.members[k]])

\* The const operator[] with a name: the member, or null where there is none
\* or the value is no object.
Member(json, key) ==
    IF json.type = "Object" /\ key \in DOMAIN json.members
    THEN json.members[key]
    ELSE JsonNull

\* The value a path leads to.
RECURSIVE GetAt(_, _)
GetAt(json, path) ==
    IF path = <<>> THEN json
    ELSE IF json.type = "Object"
         THEN GetAt(json.members[Head(path)], Tail(path))
         ELSE GetAt(json.elements[Head(path)], Tail(path))

\* The tree after an assignment through a pointer: the value the path leads
\* to replaced.
RECURSIVE SetAt(_, _, _)
SetAt(json, path, value) ==
    IF path = <<>> THEN value
    ELSE IF json.type = "Object"
         THEN ObjectSet(json, Head(path),
                        SetAt(json.members[Head(path)], Tail(path), value))
         ELSE JsonArray([json.elements EXCEPT
                            ![Head(path)] = SetAt(@, Tail(path), value)])

(***************************************************************************)
(* Config.cpp: SplitLines and Config::FromString.                          *)
(***************************************************************************)

\* std::string::find_first_of(chars): the offset of the first character of s
\* that is in chars, -1 (npos) when there is none.
FindFirstOf(s, chars) ==
    IF \E i \in 1..Len(s) : s[i] \in chars
    THEN (CHOOSE i \in 1..Len(s) :
              s[i] \in chars /\ \A j \in 1..(i - 1) : s[j] \notin chars) - 1
    ELSE -1

\* std::string::find_first_not_of(chars, pos).
FindFirstNotOf(s, chars, pos) ==
    IF \E i \in (pos + 1)..Len(s) : s[i] \notin chars
    THEN (CHOOSE i \in (pos + 1)..Len(s) :
              s[i] \notin chars /\ \A j \in (pos + 1)..(i - 1) : s[j] \in chars) - 1
    ELSE -1

CRLF == {"\r", "\n"}

RECURSIVE SplitLines(_)
SplitLines(input) ==
    IF input = <<>> THEN <<>>
    ELSE LET delimiter == FindFirstOf(input, CRLF) IN
         IF delimiter = -1 THEN <<input>>
         ELSE LET nonDelimiter == FindFirstNotOf(input, CRLF, delimiter) IN
              <<Substr(input, 0, delimiter)>>
                  \o (IF nonDelimiter = -1 THEN <<>>
                      ELSE SplitLines(SubstrFrom(input, nonDelimiter)))

\* SystemAbstractions::Trim: s without the white space at its two ends.
RECURSIVE Trim(_)
Trim(s) ==
    IF s = <<>> THEN <<>>
    ELSE IF Ascii[Head(s)] <= 32 THEN Trim(Tail(s))
    ELSE IF Ascii[s[Len(s)]] <= 32 THEN Trim(SubSeq(s, 1, Len(s) - 1))
    ELSE s

\* value->Set(key, member) through the pointer value: the member is set when
\* the pointer leads to an object.  Json::Value::Set on another kind of value
\* stores nothing in the tree.
SetThrough(config, value, key, member) ==
    IF GetAt(config, value).type = "Object"
    THEN SetAt(config, value, ObjectSet(GetAt(config, value), key, member))
    ELSE config

\* What the pointer Set returns leads to: the member set, or, where nothing
\* was stored, a value that is no object.
SetResult(config, value, key) ==
    IF GetAt(config, value).type = "Object" THEN value \o <<key>> ELSE value

\* The loop that leaves every context on the stack.
PopContext_Never(context, indentation) == context

\* The loop that pops the contexts indented more than the line; the top of
\* the stack is the last element.
RECURSIVE PopContext(_, _)
PopContext(context, indentation) ==
    IF context # <<>> /\ indentation < context[Len(context)].indentation
    THEN PopContext(SubSeq(context, 1, Len(context) - 1), indentation)
    ELSE context

\* The body of FromString's loop for a line that is not empty and does not
\* start with "[": p.config is the tree, p.lastValue is empty for nullptr
\* and else holds the pointer, p.context is the stack.
FromStringKeyLine(p, line) ==
    LET indentation == FindFirstNotOf(line, {" "}, 0) IN
    IF indentation = -1 THEN p
    ELSE LET popped == PopContext(p.context, indentation) IN
         IF popped = <<>> THEN [p EXCEPT !.context = popped]
         ELSE IF indentation > popped[Len(popped)].indentation
                  /\ p.lastValue = <<>>
              THEN [p EXCEPT !.context = popped]
         ELSE LET pushed ==
                      IF indentation > popped[Len(popped)].indentation
                      THEN [p EXCEPT
                               !.context = Append(popped,
                                   [indentation |-> indentation,
                                    value |-> p.lastValue[1]]),
                               !.lastValue = <<>>]
                      ELSE [p EXCEPT !.context = popped]
                  delimiter == Find(line, "=")
                  top == pushed.context[Len(pushed.context)].value
              IN  IF delimiter = -1 THEN pushed
                  ELSE LET key == Trim(Substr(line, 0, delimiter))
                           value == Trim(SubstrFrom(line, delimiter + 1))
                           member == IF value = <<>> THEN EmptyObject
                                     ELSE JsonString(value)
                       IN  [pushed EXCEPT
                               !.config = SetThrough(pushed.config, top, key,
                                                     member),
                               !.lastValue = <<SetResult(pushed.config, top,
                                                         key)>>]

\* The body of FromString's loop.
FromStringLine(p, line) ==
    IF line = <<>> THEN p
    ELSE IF line[1] = "["
         THEN IF line[Len(line)] = "]"
              THEN LET key == Trim(Substr(line, 1, Len(line) - 2)) IN
                   [config |-> ObjectSet(p.config, key, EmptyObject),
                    lastValue |-> <<>>,
                    context |-> <<[indentation |-> 0, value |-> <<key>>]>>]
              ELSE p
         ELSE FromStringKeyLine(p, line)

RECURSIVE FromStringLines(_, _)
FromStringLines(p, lines) ==
    IF lines = <<>> THEN p
    ELSE FromStringLines(FromStringLine(p, Head(lines)), Tail(lines))

\* Config::FromString.
FromString(configString) ==
    FromStringLines([config |-> EmptyObject, lastValue |-> <<>>,
                     context |-> <<>>],
                    SplitLines(configString)).config

(***************************************************************************)
(* S3.cpp: XmlToJson.  The scanner reads the document one character at a   *)
(* time; what it holds between two characters is its state, the characters *)
(* gathered in data, the stack of pointers elements (its top is the last   *)
(* element) and the tree json.                                             *)
(***************************************************************************)

\* A scanner that starts without a declaration to pass.
XmlStart_InDocument ==
    [state |-> "Document", data |-> <<>>, elements |-> <<>>,
     json |-> EmptyObject]

\* The scanner before the first character.
XmlStart ==
    [state |-> "Header", data |-> <<>>, elements |-> <<>>, json |-> EmptyObject]

\* The pointer parent of a scanner that always takes json.
XmlParent_Root(scanner) == <<>>

\* The pointer parent: json when the stack is empty, else the top of the stack.
XmlParent(scanner) ==
    IF scanner.elements = <<>> THEN <<>>
    ELSE scanner.elements[Len(scanner.elements)]

\* The non-const operator[] with a name: the member is made, null, when the
\* object has none of that name.
WithMember(object, key) ==
    IF key \in DOMAIN object.members THEN object
    ELSE ObjectSet(object, key, JsonNull)

\* The ">" that ends an opening tag, for a tag of the array set that makes a
\* new array at every occurrence.
XmlOpenTag_NewArrayEachTime(scanner, arrayElements) ==
    LET parent == XmlParent(scanner)
        held == GetAt(scanner.json, parent)
        object == IF held.type # "Object" THEN EmptyObject ELSE held
        tag == scanner.data
    IN  IF tag \notin arrayElements
        THEN [state |-> "TagBeginOrContent", data |-> <<>>,
              elements |-> Append(scanner.elements, parent \o <<tag>>),
              json |-> SetAt(scanner.json, parent, WithMember(object, tag))]
        ELSE [state |-> "TagBeginOrContent", data |-> <<>>,
              elements |-> Append(scanner.elements, parent \o <<tag, 1>>),
              json |-> SetAt(scanner.json, parent,
                             ObjectSet(object, tag, JsonArray(<<JsonNull>>)))]

\* The ">" that ends an opening tag, for a scanner that pushes the array
\* and not its new element.
XmlOpenTag_PushesArray(scanner, arrayElements) ==
    LET parent == XmlParent(scanner)
        held == GetAt(scanner.json, parent)
        object == IF held.type # "Object" THEN EmptyObject ELSE held
        tag == scanner.data
        member == WithMember(object, tag).members[tag]
        array == IF member.type # "Array" THEN <<>> ELSE member.elements
    IN  IF tag \notin arrayElements
        THEN [state |-> "TagBeginOrContent", data |-> <<>>,
              elements |-> Append(scanner.elements, parent \o <<tag>>),
              json |-> SetAt(scanner.json, parent, WithMember(object, tag))]
        ELSE [state |-> "TagBeginOrContent", data |-> <<>>,
              elements |-> Append(scanner.elements, parent \o <<tag>>),
              json |-> SetAt(scanner.json, parent,
                             ObjectSet(object, tag,
                                       JsonArray(Append(array, JsonNull))))]

\* The ">" that ends an opening tag, for a scanner that overwrites the
\* member a tag outside the array set names.
XmlOpenTag_Overwrites(scanner, arrayElements) ==
    LET parent == XmlParent(scanner)
        held == GetAt(scanner.json, parent)
        object == IF held.type # "Object" THEN EmptyObject ELSE held
        tag == scanner.data
    IN  IF tag \notin arrayElements
        THEN [state |-> "TagBeginOrContent", data |-> <<>>,
              elements |-> Append(scanner.elements, parent \o <<tag>>),
              json |-> SetAt(scanner.json, parent,
                             ObjectSet(object, tag, JsonNull))]
        ELSE XmlOpenTag_NewArrayEachTime(scanner, arrayElements)

\* The ">" that ends an opening tag: the parent is made an object unless it
\* is one; the child is the member named by the tag or, for a tag of the
\* array set, a new last element of the array that member is or is made.
XmlOpenTag(scanner, arrayElements) ==
    LET parent == XmlParent(scanner)
        held == GetAt(scanner.json, parent)
        object == IF held.type # "Object" THEN EmptyObject ELSE held
        tag == scanner.data
    IN  IF tag \notin arrayElements
        THEN [state |-> "TagBeginOrContent", data |-> <<>>,
              elements |-> Append(scanner.elements, parent \o <<tag>>),
              json |-> SetAt(scanner.json, parent, WithMember(object, tag))]
        ELSE LET member == WithMember(object, tag).members[tag]
                 array == IF member.type # "Array" THEN <<>>
                          ELSE member.elements
                 child == Append(array, JsonNull)
             IN  [state |-> "TagBeginOrContent", data |-> <<>>,
                  elements |-> Append(scanner.elements,
                                      parent \o <<tag, Len(child)>>),
                  json |-> SetAt(scanner.json, parent,
                                 ObjectSet(object, tag, JsonArray(child)))]

\* The ">" that ends a closing tag, for a scanner that pops whatever the
\* stack holds.
XmlCloseTag_PopsAlways(scanner) ==
    [scanner EXCEPT !.elements = SubSeq(@, 1, Len(@) - 1),
                    !.state = "TagBegin"]

\* The ">" that ends a closing tag, for a scanner that ends at the first
\* closing tag.
XmlCloseTag_EndsAtOnce(scanner) == [scanner EXCEPT !.state = "End"]

\* The ">" that ends a closing tag, for a scanner that starts again at the
\* root element when the stack is empty.
XmlCloseTag_Reopens(scanner) ==
    IF scanner.elements = <<>>
    THEN [scanner EXCEPT !.state = "Document"]
    ELSE [scanner EXCEPT !.elements = SubSeq(@, 1, Len(@) - 1),
                         !.state = "TagBegin"]

\* The ">" that ends a closing tag: the scan is over when the stack is
\* empty, else the top of the stack is popped.
XmlCloseTag(scanner) ==
    IF scanner.elements = <<>>
    THEN [scanner EXCEPT !.state = "End"]
    ELSE [scanner EXCEPT !.elements = SubSeq(@, 1, Len(@) - 1),
                         !.state = "TagBegin"]

\* The body of the loop, for the character c.
XmlStep(scanner, c, arrayElements) ==
    CASE scanner.state = "Header" ->
             IF c = ">" THEN [scanner EXCEPT !.state = "Document"] ELSE scanner
      [] scanner.state = "Document" ->
             IF c = ">" THEN [scanner EXCEPT !.state = "TagBegin"] ELSE scanner
      [] scanner.state = "TagBegin" ->
             IF c = "<"
             THEN [scanner EXCEPT !.state = "Tag", !.data = <<>>]
             ELSE scanner
      [] scanner.state = "Tag" ->
             IF c = "/" THEN [scanner EXCEPT !.state = "TagEnd"]
             ELSE IF c = ">" THEN XmlOpenTag(scanner, arrayElements)
             ELSE [scanner EXCEPT !.data = Append(@, c)]
      [] scanner.state = "TagBeginOrContent" ->
             IF c = "<" THEN [scanner EXCEPT !.state = "Tag"]
             ELSE [scanner EXCEPT !.state = "Content", !.data = Append(@, c)]
      [] scanner.state = "Content" ->
             IF c = "<"
             THEN [scanner EXCEPT
                      !.json = SetAt(@, XmlParent(scanner),
                                     JsonString(scanner.data)),
                      !.state = "TagEnd"]
             ELSE [scanner EXCEPT !.data = Append(@, c)]
      [] scanner.state = "TagEnd" ->
             IF c = ">" THEN XmlCloseTag(scanner) ELSE scanner
      [] OTHER -> scanner

\* The loop over the characters of xml, from the scanner given: over the
\* first half of them and, from the scanner they leave, over the rest.  In
\* the state End no character changes anything.
RECURSIVE XmlScan(_, _, _)
XmlScan(scanner, xml, arrayElements) ==
    IF xml = <<>> THEN scanner
    ELSE IF Len(xml) = 1 THEN XmlStep(scanner, xml[1], arrayElements)
    ELSE LET half == Len(xml) \div 2
             first == XmlScan(scanner, SubSeq(xml, 1, half), arrayElements)
         IN  IF first.state = "End" THEN first
             ELSE XmlScan(first, SubSeq(xml, half + 1, Len(xml)),
                          arrayElements)

XmlToJson(xml, arrayElements) == XmlScan(XmlStart, xml, arrayElements).json

(***************************************************************************)
(* The callers of SignApi: what they pass in, and the three calls in the   *)
(* order the S3 operations and the unit tests make them.                   *)
(***************************************************************************)

VARIABLES
    caller,             \* "request": the caller signs a raw request;
                        \* "canonical": it starts from a canonical request
    queryParts,         \* the pieces the caller joined with "&" as the query
    rawRequest,         \* the raw API request
    region,
    service,
    accessKeyId,
    accessKeySecret,
    canonicalRequest,   \* the value of ConstructCanonicalRequest
    stringToSign,       \* the value of MakeStringToSign
    authorization,      \* the value of MakeAuthorization
    pc                  \* "start", "canonical", "signed", "done", "crashed"

signVars ==
    <<caller, queryParts, rawRequest, region, service, accessKeyId,
      accessKeySecret, canonicalRequest, stringToSign, authorization, pc>>

\* A caller of ParseTimestamp.
VARIABLES
    civil,              \* the instant the timestamp tells: year, month, day,
                        \* hour, minute, second, millisecond
    timestamp,          \* the timestamp given to ParseTimestamp
    parsed,             \* the value of ParseTimestamp
    tsPc                \* "idle", "start", "done", "trapped"

tsVars == <<civil, timestamp, parsed, tsPc>>

\* No call of ParseTimestamp is made.
TimestampIdle ==
    /\ civil = <<>>
    /\ timestamp = <<>>
    /\ parsed = [seconds |-> 0, milliseconds |-> 0]
    /\ tsPc = "idle"

\* A caller of Config::FromString.
VARIABLES
    configLines,        \* the lines the configuration is written in
    configString,       \* the string given to FromString
    config,             \* the value of FromString
    cfgPc               \* "idle", "start", "done"

cfgVars == <<configLines, configString, config, cfgPc>>

\* No call of FromString is made.
ConfigIdle ==
    /\ configLines = <<>>
    /\ configString = <<>>
    /\ config = JsonNull
    /\ cfgPc = "idle"

\* A call of XmlToJson.
VARIABLES
    xmlElements,        \* the elements in the root element of the document
    xml,                \* the document given to XmlToJson
    arrayElements,      \* the tags given as arrays
    scanner,            \* XmlToJson's state, data, elements and json
    position,           \* the number of characters read
    xmlPc               \* "idle", "scan", "done"

xmlVars == <<xmlElements, xml, arrayElements, scanner, position, xmlPc>>

\* No call of XmlToJson is made.
XmlIdle ==
    /\ xmlElements = <<>>
    /\ xml = <<>>
    /\ arrayElements = {}
    /\ scanner = XmlStart
    /\ position = 0
    /\ xmlPc = "idle"

\* A call of ListBuckets, ListObjects or GetObject, the thread that
\* std::async starts for it, and the HTTP client it hands its requests to.
VARIABLES
    operation,          \* "ListBuckets", "ListObjects", "GetObject"; "" before
    impl,               \* impl->config: region, accessKeyId, secretAccessKey,
                        \* sessionToken
    bucketName,
    objectName,
    amzDate,            \* date: AmzTimestamp(time(NULL))
    continuationToken,
    request,            \* the Http::Request under construction
    signing,            \* canonicalRequest, stringToSign, authorization
    transaction,        \* what http->Request returned: the request the client
                        \* received, its state and its response
    result,             \* the result under construction
    future,             \* "none", "pending", "ready", "exception"
    served,             \* what the server has answered: the Contents entries
                        \* of its 200 responses in order, whether its last
                        \* answer was a truncated page with a token, and
                        \* that token
    bodyUse,            \* what the thread did with the body of the
                        \* transaction: "none", "transcoded", "copied"
    s3Pc                \* "idle", "uncalled", "build", "sign", "send",
                        \* "await", "respond", "return", "thrown", "done"

s3Vars ==
    <<operation, impl, bucketName, objectName, amzDate, continuationToken,
      request, signing, transaction, result, future, served, bodyUse, s3Pc>>

\* No S3 operation is called.
S3Idle ==
    /\ operation = ""
    /\ impl = <<>>
    /\ bucketName = <<>>
    /\ objectName = <<>>
    /\ amzDate = <<>>
    /\ continuationToken = <<>>
    /\ request = <<>>
    /\ signing = <<>>
    /\ transaction = <<>>
    /\ result = <<>>
    /\ future = "none"
    /\ served = <<>>
    /\ bodyUse = "none"
    /\ s3Pc = "idle"

vars == <<signVars, tsVars, cfgVars, xmlVars, s3Vars>>

\* What the calls of SignApi leave as it is.
notSignVars == <<tsVars, cfgVars, xmlVars, s3Vars>>

\* What the calls of ParseTimestamp leave as it is.
notTsVars == <<signVars, cfgVars, xmlVars, s3Vars>>

\* What the calls of FromString leave as it is.
notCfgVars == <<signVars, tsVars, xmlVars, s3Vars>>

\* What a call of XmlToJson leaves as it is.
notXmlVars == <<signVars, tsVars, cfgVars, s3Vars>>

\* What an S3 operation leaves as it is.
notS3Vars == <<signVars, tsVars, cfgVars, xmlVars>>

\* No call of SignApi is made.
SignIdle ==
    /\ caller = "idle"
    /\ queryParts = <<>>
    /\ rawRequest = <<>>
    /\ region = <<>>
    /\ service = <<>>
    /\ accessKeyId = <<>>
    /\ accessKeySecret = <<>>
    /\ canonicalRequest = <<>>
    /\ stringToSign = <<>>
    /\ authorization = <<>>
    /\ pc = "idle"

\* The most headers and the most query pieces of a request of the model.
MaxHeaders == 3

MaxParameters == 3

\* The sequences of at most n elements of the set S.
SeqUpTo(S, n) == UNION {[1..k -> S] : k \in 0..n}

\* The headers a request is made of: names that differ in case only, values
\* with runs of spaces and with white space in their margins, a date with
\* "/" in it and an empty date.
HeaderPool ==
    { [name  |-> <<"H", "o", "s", "t">>,
       value |-> <<"e", ".", "c", "o", "m">>],
      [name  |-> <<"X", "-", "A", "m", "z", "-", "D", "a", "t", "e">>,
       value |-> <<"2", "0", "1", "5", "0", "8", "3", "0", "T", "1", "2", "Z">>],
      [name  |-> <<"x", "-", "a", "m", "z", "-", "d", "a", "t", "e">>,
       value |-> <<" ", "2", "0", "1", "5", "/", "0", "8", "/", "3", "0", " ">>],
      [name  |-> <<"X", "-", "A", "m", "z", "-", "D", "a", "t", "e">>,
       value |-> <<>>],
      [name  |-> <<"M", "y", "-", "H">>,
       value |-> <<" ", "a", " ", " ", " ", "b", " ", " ">>],
      [name  |-> <<"m", "y", "-", "h">>,
       value |-> <<"\t", "c", " ", " ", "d">>] }

\* The pieces a query is made of: equal names with different values, a name
\* without "=", and the empty piece.
ParameterPool ==
    { <<"b", "=", "2">>, <<"a", "=", "1">>, <<"a", "=", "0">>, <<"a">>, <<>> }

\* The request the S3 operations make: GET / with Host and x-amz-date.
DefaultHeaders ==
    << [name  |-> <<"H", "o", "s", "t">>,
        value |-> <<"e", ".", "c", "o", "m">>],
       [name  |-> <<"x", "-", "a", "m", "z", "-", "d", "a", "t", "e">>,
        value |-> <<"2", "0", "1", "5", "0", "8", "3", "0", "T", "1", "2", "Z">>] >>

\* A raw request: its request line (method, target, protocol), its headers
\* and its body.
RawRequest(method, protocol, path, hasQuery, parts, headers, body) ==
    [method   |-> method,
     protocol |-> protocol,
     path     |-> path,
     hasQuery |-> hasQuery,
     query    |-> Join(parts, <<"&">>),
     headers  |-> headers,
     body     |-> body]

GET == <<"G", "E", "T">>

HTTP_1_0 == <<"H", "T", "T", "P", "/", "1", ".", "0">>

\* The regions, one of them with a "/" in it and one empty.
Regions ==
    { <<"u", "s", "-", "1">>, <<"e", "u", "/", "2">>, <<>> }

Services == { <<"s", "3">>, <<"i", "a", "m">> }

Secrets == { <<"w", "J", "a">>, <<"K", "7">> }

AKID == <<"A", "K", "I", "D">>

\* Canonical requests a caller passes to MakeStringToSign that are not the
\* value of ConstructCanonicalRequest: the empty string, a single line, a
\* line that holds "x-amz-date:" after its start or in another case, and two
\* lines that start with it.
GivenCanonicalRequests ==
    { <<>>,
      <<"G", "E", "T">>,
      <<"G", "E", "T", "\n", "/", "\n", "\n",
        "a", "x", "-", "a", "m", "z", "-", "d", "a", "t", "e", ":", "1", "\n",
        "X", "-", "A", "m", "z", "-", "D", "a", "t", "e", ":", "2", "\n",
        "\n", "a", "\n", "f", "f">>,
      <<"G", "E", "T", "\n", "/", "\n", "\n",
        "x", "-", "a", "m", "z", "-", "d", "a", "t", "e", ":",
        "2", "0", "1", "6", "0", "1", "0", "2", "T", "3", "\n",
        "x", "-", "a", "m", "z", "-", "d", "a", "t", "e", ":", "1", "9", "\n",
        "\n", "h", "\n", "f", "f">> }

\* What MakeAuthorization may find where it reads outside the vector of the
\* canonical request's lines, when the read does not end the process.
StrayLines == { <<>>, <<"h", "o", "s", "t">> }

\* The inputs of a caller that signs a raw request.  One of the request's
\* headers, its query, its request line and body, or the region, service
\* and secret vary, the others being those of the request the S3 operations
\* make.
RequestInputs ==
    LET one(req, parts, r, s, k) ==
            [rawRequest |-> req, queryParts |-> parts, region |-> r,
             service |-> s, accessKeySecret |-> k]
        defaultRegion == <<"u", "s", "-", "1">>
        defaultService == <<"s", "3">>
        defaultSecret == <<"w", "J", "a">>
        root == << <<>> >>
    IN  { one(RawRequest(GET, HTTP_1_1, root, FALSE, <<>>, h, <<>>), <<>>,
              defaultRegion, defaultService, defaultSecret) :
            h \in SeqUpTo(HeaderPool, MaxHeaders) }
        \cup
        { one(RawRequest(GET, HTTP_1_1, root, TRUE, q, DefaultHeaders, <<>>), q,
              defaultRegion, defaultService, defaultSecret) :
            q \in SeqUpTo(ParameterPool, MaxParameters) }
        \cup
        { one(RawRequest(m, v, p, FALSE, <<>>, DefaultHeaders, b), <<>>,
              defaultRegion, defaultService, defaultSecret) :
            m \in {GET, <<>>}, v \in {HTTP_1_1, HTTP_1_0},
            p \in {root, <<<<>>, <<"b">>>>}, b \in {<<>>, <<"x">>} }
        \cup
        { one(RawRequest(GET, HTTP_1_1, root, FALSE, <<>>, DefaultHeaders, <<>>),
              <<>>, r, s, k) :
            r \in Regions, s \in Services, k \in Secrets }

Init ==
    /\ \/ /\ caller = "request"
          /\ \E i \in RequestInputs :
               /\ rawRequest = i.rawRequest
               /\ queryParts = i.queryParts
               /\ region = i.region
               /\ service = i.service
               /\ accessKeySecret = i.accessKeySecret
       \/ /\ caller = "canonical"
          /\ rawRequest = RawRequest(GET, HTTP_1_1, << <<>> >>, FALSE, <<>>,
                                     DefaultHeaders, <<>>)
          /\ queryParts = <<>>
          /\ region \in Regions
          /\ service = <<"s", "3">>
          /\ accessKeySecret = <<"w", "J", "a">>
    /\ accessKeyId = AKID
    /\ canonicalRequest = <<>>
    /\ stringToSign = <<>>
    /\ authorization = <<>>
    /\ pc = "start"
    /\ TimestampIdle
    /\ ConfigIdle
    /\ XmlIdle
    /\ S3Idle

\* The caller calls ConstructCanonicalRequest with its raw request.
CallConstructCanonicalRequest ==
    /\ pc = "start"
    /\ caller = "request"
    /\ canonicalRequest' = ConstructCanonicalRequest(rawRequest)
    /\ pc' = "canonical"
    /\ UNCHANGED <<caller, queryParts, rawRequest, region, service,
                   accessKeyId, accessKeySecret, stringToSign, authorization>>
    /\ UNCHANGED notSignVars

\* The caller takes a canonical request from elsewhere, as the unit tests do.
GiveCanonicalRequest ==
    /\ pc = "start"
    /\ caller = "canonical"
    /\ canonicalRequest' \in GivenCanonicalRequests
    /\ pc' = "canonical"
    /\ UNCHANGED <<caller, queryParts, rawRequest, region, service,
                   accessKeyId, accessKeySecret, stringToSign, authorization>>
    /\ UNCHANGED notSignVars

\* The caller calls MakeStringToSign with the canonical request it holds,
\* empty or not: no caller looks at it first.
CallMakeStringToSign ==
    /\ pc = "canonical"
    /\ stringToSign' = MakeStringToSign(region, service, canonicalRequest)
    /\ pc' = "signed"
    /\ UNCHANGED <<caller, queryParts, rawRequest, region, service,
                   accessKeyId, accessKeySecret, canonicalRequest,
                   authorization>>
    /\ UNCHANGED notSignVars

\* The caller calls MakeAuthorization.  A read outside a vector is undefined
\* behaviour: the process ends, or the call goes on with what it found there.
CallMakeAuthorization ==
    /\ pc = "signed"
    /\ IF MakeAuthorizationInBounds(stringToSign, canonicalRequest)
       THEN /\ authorization' = MakeAuthorization(stringToSign, canonicalRequest,
                                                  accessKeyId, accessKeySecret)
            /\ pc' = "done"
       ELSE \/ /\ pc' = "crashed"
               /\ UNCHANGED authorization
            \/ /\ \E stray \in StrayLines :
                    authorization' = AuthorizationOutput(
                        stringToSign, stray, accessKeyId, accessKeySecret)
               /\ pc' = "done"
    /\ UNCHANGED <<caller, queryParts, rawRequest, region, service,
                   accessKeyId, accessKeySecret, canonicalRequest,
                   stringToSign>>
    /\ UNCHANGED notSignVars

Next ==
    \/ CallConstructCanonicalRequest
    \/ GiveCanonicalRequest
    \/ CallMakeStringToSign
    \/ CallMakeAuthorization

Spec == Init /\ [][Next]_vars

(***************************************************************************)
(* A caller of ParseTimestamp: it gives the timestamp of an instant, as S3 *)
(* writes it, and takes the seconds since the epoch.                       *)
(***************************************************************************)

\* The years of the model's instants run from 1970 to MaxYear.
MaxYear == 2039

\* The days of a month of the Gregorian calendar.
DaysInMonth(year, month) ==
    IF month = 2
    THEN IF (year % 4 = 0 /\ year % 100 # 0) \/ year % 400 = 0 THEN 29 ELSE 28
    ELSE IF month \in {4, 6, 9, 11} THEN 30 ELSE 31

\* The instants: every month of every year, its first, 19th and last day,
\* at midnight, at 03:14:07, one second later and at the end of the day.
Instants ==
    { <<y, mo, d, t[1], t[2], t[3], t[4]>> :
        y \in 1970..MaxYear, mo \in 1..12,
        d \in {1, 19, 28, 29, 30, 31},
        t \in { <<0, 0, 0, 0>>, <<3, 14, 7, 0>>, <<3, 14, 8, 123>>,
                <<23, 59, 59, 999>> } }

\* n in decimal, in width digits.
Decimal(n, width) ==
    [i \in 1..width |-> Chr(48 + ((n \div (10 ^ (width - i))) % 10))]

\* "YYYY-MM-DDTHH:MM:SS.mmmZ".
FormatTimestamp(c) ==
    Decimal(c[1], 4) \o <<"-">> \o Decimal(c[2], 2) \o <<"-">>
        \o Decimal(c[3], 2) \o <<"T">> \o Decimal(c[4], 2) \o <<":">>
        \o Decimal(c[5], 2) \o <<":">> \o Decimal(c[6], 2) \o <<".">>
        \o Decimal(c[7], 3) \o <<"Z">>

TimestampInit ==
    /\ civil \in {c \in Instants : c[3] <= DaysInMonth(c[1], c[2])}
    /\ timestamp = FormatTimestamp(civil)
    /\ parsed = [seconds |-> 0, milliseconds |-> 0]
    /\ tsPc = "start"
    /\ SignIdle
    /\ ConfigIdle
    /\ XmlIdle
    /\ S3Idle

\* The call of ParseTimestamp.  When a sum overflowed, the call returns what
\* two's complement arithmetic leaves, or the process ends at the overflow.
CallParseTimestamp ==
    /\ tsPc = "start"
    /\ LET r == ParseTimestamp(timestamp)
           returned == /\ parsed' = [seconds |-> r.seconds,
                                     milliseconds |-> r.milliseconds]
                       /\ tsPc' = "done"
       IN  IF r.overflowed
           THEN \/ returned
                \/ /\ tsPc' = "trapped"
                   /\ UNCHANGED parsed
           ELSE returned
    /\ UNCHANGED <<civil, timestamp>>
    /\ UNCHANGED notTsVars

TimestampNext == CallParseTimestamp

TimestampSpec == TimestampInit /\ [][TimestampNext]_vars

(***************************************************************************)
(* A caller of Config::FromString: it gives a configuration of a few       *)
(* lines, with the line breaks of one of three kinds.                      *)
(***************************************************************************)

\* The most lines of a configuration after its first section line.
MaxConfigLines == 4

\* The first line: a section.
FirstSectionLine == <<"[", "s", "]">>

\* The lines that follow: a second section, whose name has spaces around
\* it; a key with a value; a key without a value; keys indented by two and
\* by four spaces, with and without spaces around "=" and at the end.
ConfigLinePool ==
    { <<"[", " ", "t", " ", "]">>,
      <<"a", " ", "=", " ", "1">>,
      <<"a", " ", "=">>,
      <<" ", " ", "b", " ", "=", "2", " ">>,
      <<" ", " ", "b", "=">>,
      <<" ", " ", " ", " ", "c", " ", "=", " ", "3">> }

\* The line breaks: LF, CR LF, and a mix that leaves blank lines.
LineBreaks == { <<"\n">>, <<"\r", "\n">>, <<"\n", "\n", "\r">> }

ConfigInit ==
    /\ \E rest \in SeqUpTo(ConfigLinePool, MaxConfigLines) :
           configLines = <<FirstSectionLine>> \o rest
    /\ \E lineBreak \in LineBreaks :
           configString = Join(configLines, lineBreak) \o lineBreak
    /\ config = JsonNull
    /\ cfgPc = "start"
    /\ SignIdle
    /\ TimestampIdle
    /\ XmlIdle
    /\ S3Idle

\* The call of Config::FromString.
CallFromString ==
    /\ cfgPc = "start"
    /\ config' = FromString(configString)
    /\ cfgPc' = "done"
    /\ UNCHANGED <<configLines, configString>>
    /\ UNCHANGED notCfgVars

ConfigNext == CallFromString

ConfigSpec == ConfigInit /\ [][ConfigNext]_vars

(***************************************************************************)
(* A caller of XmlToJson: it gives a document written as S3 writes its     *)
(* responses, the XML declaration and the root element with its elements,  *)
(* nothing between a tag and the next but an element's text.               *)
(***************************************************************************)

\* The most elements of the model's root element.
MaxElements == 3

\* An element with a text (which may be empty) and one with elements.
TextElement(tag, text) == [tag |-> tag, text |-> text, children |-> <<>>]

ParentElement(tag, children) == [tag |-> tag, text |-> <<>>, children |-> children]

\* The elements of the root: the tag A three times, with two texts and
\* with an element of its own; the tag A empty; another tag; and an element
\* that holds the tag A twice, with another tag between the two.
ElementPool ==
    { TextElement(<<"A">>, <<"x">>),
      TextElement(<<"A">>, <<"y", "1">>),
      TextElement(<<"A">>, <<>>),
      TextElement(<<"B">>, <<"z">>),
      ParentElement(<<"A">>, <<TextElement(<<"B">>, <<"k">>)>>),
      ParentElement(<<"C">>, <<TextElement(<<"A">>, <<"u">>),
                              TextElement(<<"B">>, <<"v">>),
                              TextElement(<<"A">>, <<"w">>)>>) }

\* The sets of array tags a caller gives.
ArrayElementSets == { {<<"A">>}, {<<"C">>}, {} }

\* The text of a sequence of elements.
RECURSIVE XmlText(_)
XmlText(elements) ==
    IF elements = <<>> THEN <<>>
    ELSE LET e == Head(elements) IN
         <<"<">> \o e.tag \o <<">">> \o e.text \o XmlText(e.children)
             \o <<"<", "/">> \o e.tag \o <<">">> \o XmlText(Tail(elements))

\* The document: the declaration, the root element and its elements.
XmlDocument(elements) ==
    <<"<", "?", "x", "?", ">", "<", "R", ">">> \o XmlText(elements)
        \o <<"<", "/", "R", ">">>

XmlInit ==
    /\ xmlElements \in SeqUpTo(ElementPool, MaxElements)
    /\ xml = XmlDocument(xmlElements)
    /\ arrayElements \in ArrayElementSets
    /\ scanner = XmlStart
    /\ position = 0
    /\ xmlPc = "scan"
    /\ SignIdle
    /\ TimestampIdle
    /\ ConfigIdle
    /\ S3Idle

\* One turn of XmlToJson's loop: the next character is read.
XmlReadCharacter ==
    /\ xmlPc = "scan"
    /\ position < Len(xml)
    /\ scanner' = XmlStep(scanner, xml[position + 1], arrayElements)
    /\ position' = position + 1
    /\ UNCHANGED <<xmlElements, xml, arrayElements, xmlPc>>
    /\ UNCHANGED notXmlVars

\* XmlToJson returns json after the last character.
XmlReturn ==
    /\ xmlPc = "scan"
    /\ position = Len(xml)
    /\ xmlPc' = "done"
    /\ UNCHANGED <<xmlElements, xml, arrayElements, scanner, position>>
    /\ UNCHANGED notXmlVars

XmlNext ==
    \/ XmlReadCharacter
    \/ XmlReturn

XmlSpec == XmlInit /\ [][XmlNext]_vars

(***************************************************************************)
(* A caller of XmlToJson with whatever the server sent: documents that are *)
(* not well formed, and every document cut off after any character.        *)
(***************************************************************************)

\* Documents as they are written: well formed with a text of entity, ">"
\* and spaces and with repeated tags; an element first with an element and
\* then with a text; an empty element after one with a text and characters
\* after the root's end; self-closing tags in the root and below it;
\* closing tags without their opening tags; elements left open; a text
\* before an element; an element twice with array tags in it; a tag with an
\* attribute; and no declaration.
WrittenDocuments ==
    { <<"<", "?", "x", "?", ">", "<", "R", ">", "<", "A", ">", "x", "<", "/", "A", ">", "<", "A", ">", "y", "<", "/", "A", ">", "<", "B", ">", " ", "&", "q", ";", "/", ">", " ", "<", "/", "B", ">", "<", "B", ">", "z", "<", "/", "B", ">", "<", "/", "R", ">">>,
      <<"<", "?", "x", "?", ">", "<", "R", ">", "<", "B", ">", "<", "A", ">", "u", "<", "/", "A", ">", "<", "/", "B", ">", "<", "B", ">", "t", "<", "/", "B", ">", "<", "/", "R", ">">>,
      <<"<", "?", "x", "?", ">", "<", "R", ">", "<", "B", ">", "t", "<", "/", "B", ">", "<", "B", ">", "<", "/", "B", ">", "<", "/", "R", ">", "t", "a", "i", "l", "<", "A", ">", "q", "<", "/", "A", ">">>,
      <<"<", "?", "x", "?", ">", "<", "R", ">", "<", "A", "/", ">", "<", "B", ">", "v", "<", "/", "B", ">", "<", "/", "R", ">">>,
      <<"<", "?", "x", "?", ">", "<", "R", ">", "<", "C", ">", "<", "A", "/", ">", "<", "/", "C", ">", "<", "B", ">", "v", "<", "/", "B", ">", "<", "/", "R", ">">>,
      <<"<", "?", "x", "?", ">", "<", "R", ">", "<", "/", "B", ">", "<", "/", "B", ">", "<", "A", ">", "x", "<", "/", "A", ">", "<", "/", "R", ">">>,
      <<"<", "?", "x", "?", ">", "<", "R", ">", "<", "C", ">", "<", "B", ">", "v", "<", "/", "R", ">">>,
      <<"<", "?", "x", "?", ">", "<", "R", ">", "<", "B", ">", "x", "<", "A", ">", "y", "<", "/", "A", ">", "<", "/", "B", ">", "<", "/", "R", ">">>,
      <<"<", "?", "x", "?", ">", "<", "R", ">", "<", "C", ">", "<", "A", ">", "1", "<", "/", "A", ">", "<", "A", ">", "2", "<", "/", "A", ">", "<", "/", "C", ">", "<", "C", ">", "<", "A", ">", "3", "<", "/", "A", ">", "<", "/", "C", ">", "<", "/", "R", ">">>,
      <<"<", "?", "x", "?", ">", "<", "R", ">", "<", "B", " ", "k", "=", "\"", "v", "\"", ">", "w", "<", "/", "B", ">", "<", "/", "R", ">">>,
      <<"<", "R", ">", "<", "B", ">", "v", "<", "/", "B", ">", "<", "/", "R", ">">> }

\* The documents given to XmlToJson: each written document and each of its
\* beginnings, the empty one included.
CutDocuments ==
    UNION { { SubSeq(d, 1, n) : n \in 0..Len(d) } : d \in WrittenDocuments }

XmlAnyInit ==
    /\ xmlElements = <<>>
    /\ xml \in CutDocuments
    /\ arrayElements \in ArrayElementSets
    /\ scanner = XmlStart
    /\ position = 0
    /\ xmlPc = "scan"
    /\ SignIdle
    /\ TimestampIdle
    /\ ConfigIdle
    /\ S3Idle

XmlAnySpec == XmlAnyInit /\ [][XmlNext]_vars

(***************************************************************************)
(* S3.cpp: ListBuckets, ListObjects and GetObject.  Each call starts a     *)
(* thread (std::async) that builds a request, signs it, hands it to the    *)
(* HTTP client, waits for the transaction and reads the response; the      *)
(* caller holds the future of the thread's result.  The three result       *)
(* structures are one record here, each operation leaving the fields of    *)
(* the others as they start.                                               *)
(***************************************************************************)

\* The most objects the server lists in the pages of one ListObjects.
MaxObjects == 2

\* An Http::Response nothing was written to.
NoResponse == [statusCode |-> 0, headers |-> <<>>, body |-> <<>>]

\* No transaction: the thread has not handed its request to the client.
NoTransaction == [request |-> <<>>, state |-> "None", response |-> NoResponse]

\* The locals canonicalRequest, payloadHash, stringToSign and authorization
\* before they are computed.
NotSigned ==
    [canonicalRequest |-> <<>>, payloadHash |-> <<>>, stringToSign |-> <<>>,
     authorization |-> <<>>]

\* A result as its structure's initialisers leave it.
NewResult ==
    [transactionState |-> "InProgress", statusCode |-> 0,
     owner |-> [id |-> <<>>, displayName |-> <<>>], buckets |-> <<>>,
     objects |-> <<>>, content |-> <<>>, headers |-> <<>>,
     errorInfo |-> JsonNull]

\* "s3." + impl->config.region + ".amazonaws.com".
S3Host(r) == <<"s", "3", ".">> \o r \o <<".", "a", "m", "a", "z", "o", "n", "a", "w", "s", ".", "c", "o", "m">>

Header(name, value) == [name |-> name, value |-> value]

\* The request as the thread builds it: GET, the host and the port 443,
\* the path, the query if one is set, the headers Host and x-amz-date.
NewRequest(host, path, hasQuery, parts, d) ==
    [method |-> GET, host |-> host, port |-> 443, path |-> path,
     hasQuery |-> hasQuery, queryParts |-> parts,
     headers |-> <<Header(<<"H", "o", "s", "t">>, host), Header(<<"x", "-", "a", "m", "z", "-", "d", "a", "t", "e">>, d)>>]

\* The path of the operation's request.
PathOf(op, bucket, object) ==
    IF op = "ListBuckets" THEN << <<>> >>
    ELSE IF op = "ListObjects" THEN << <<>>, bucket >>
    ELSE << <<>>, bucket >> \o Split(object, "/")

\* queryParts of a loop that never sends the token.
ListObjectsQuery_NoToken(token) ==
    << <<"l", "i", "s", "t", "-", "t", "y", "p", "e", "=", "2">> >>

\* The pieces of the query of a ListObjects request.
ListObjectsQuery(token) ==
    << <<"l", "i", "s", "t", "-", "t", "y", "p", "e", "=", "2">> >>
        \o (IF token # <<>> THEN << <<"c", "o", "n", "t", "i", "n", "u", "a", "t", "i", "o", "n", "-", "t", "o", "k", "e", "n", "=">> \o token >> ELSE <<>>)

\* request.Generate(): the raw request, without a body.
Generate(req) ==
    RawRequest(req.method, HTTP_1_1, req.path, req.hasQuery, req.queryParts,
               req.headers, <<>>)

\* The signature of a thread that adds x-amz-security-token before it
\* builds the canonical request.
Signing_AfterToken(req, cfg) ==
    LET tokened == [req EXCEPT !.headers =
                       @ \o <<Header(<<"x", "-", "a", "m", "z", "-", "s", "e", "c", "u", "r", "i", "t", "y", "-", "t", "o", "k", "e", "n">>, cfg.sessionToken)>>]
        canonical == ConstructCanonicalRequest(Generate(tokened))
        toSign == MakeStringToSign(cfg.region, <<"s", "3">>, canonical)
    IN  [canonicalRequest |-> canonical,
         payloadHash |-> SubstrFrom(canonical, FindLastOf(canonical, "\n") + 1),
         stringToSign |-> toSign,
         authorization |-> MakeAuthorization(toSign, canonical, cfg.accessKeyId,
                                             cfg.secretAccessKey)]

\* The canonical request, the payload hash that ends it, the string to sign
\* and the authorization of a request.
Signing(req, cfg) ==
    LET canonical == ConstructCanonicalRequest(Generate(req))
        toSign == MakeStringToSign(cfg.region, <<"s", "3">>, canonical)
    IN  [canonicalRequest |-> canonical,
         payloadHash |-> SubstrFrom(canonical, FindLastOf(canonical, "\n") + 1),
         stringToSign |-> toSign,
         authorization |-> MakeAuthorization(toSign, canonical, cfg.accessKeyId,
                                             cfg.secretAccessKey)]

\* The header x-amz-security-token, when the configuration has a token.
SecurityToken(sessionToken) ==
    IF sessionToken # <<>>
    THEN <<Header(<<"x", "-", "a", "m", "z", "-", "s", "e", "c", "u", "r", "i", "t", "y", "-", "t", "o", "k", "e", "n">>, sessionToken)>>
    ELSE <<>>

WithSignature_NoPayloadHash(req, sig, sessionToken) ==
    [req EXCEPT !.headers =
        @ \o <<Header(<<"A", "u", "t", "h", "o", "r", "i", "z", "a", "t", "i", "o", "n">>, sig.authorization)>>
          \o SecurityToken(sessionToken)]

\* The request with the headers Authorization, x-amz-content-sha256 and
\* x-amz-security-token added.
WithSignature(req, sig, sessionToken) ==
    [req EXCEPT !.headers =
        @ \o <<Header(<<"A", "u", "t", "h", "o", "r", "i", "z", "a", "t", "i", "o", "n">>, sig.authorization),
               Header(<<"x", "-", "a", "m", "z", "-", "c", "o", "n", "t", "e", "n", "t", "-", "s", "h", "a", "2", "5", "6">>, sig.payloadHash)>>
          \o SecurityToken(sessionToken)]

AwaitedCompletion_NoWait(txn) == TRUE

\* transaction->AwaitCompletion() returns once the client has completed the
\* transaction.
AwaitedCompletion(txn) == txn.state # "InProgress"

IsCompleted_Always(txn) == TRUE

\* transaction->state == Http::IClient::Transaction::State::Completed
IsCompleted(txn) == txn.state = "Completed"

IsOk_Always(statusCode) == TRUE

\* transaction->response.statusCode == 200
IsOk(statusCode) == statusCode = 200

\* (std::string) of a Json::Value: the string, or "" where there is none.
AsString(json) == IF json.type = "String" THEN json.value ELSE <<>>

\* GetSize() of what an array tag leaves: the array, or null where the tag
\* does not occur.
GetSize(json) == IF json.type = "Array" THEN Len(json.elements) ELSE 0

\* The double ParseTimestamp returns.
TimeOf(text) ==
    LET r == ParseTimestamp(text)
    IN  [seconds |-> r.seconds, milliseconds |-> r.milliseconds]

\* The result with the state and the status code of the transaction.
Reported(res, txn) ==
    [res EXCEPT !.transactionState = txn.state,
                !.statusCode = txn.response.statusCode]

\* XmlToJson(transaction->response.body, {}), the error information.
ErrorInfo(body) == XmlToJson(body, {})

\* ListBuckets, the loop over the buckets: one Bucket.
BucketOf(bucketJson) ==
    [name |-> AsString(Member(bucketJson, <<"N", "a", "m", "e">>)),
     creationDate |-> TimeOf(AsString(Member(bucketJson, <<"C", "r", "e", "a", "t", "i", "o", "n", "D", "a", "t", "e">>)))]

\* ListBuckets from AwaitCompletion's return on: the result.
ListBucketsResult(res, txn) ==
    IF IsCompleted(txn)
    THEN IF IsOk(txn.response.statusCode)
         THEN LET parsedBody == XmlToJson(txn.response.body, {<<"B", "u", "c", "k", "e", "t">>})
                  owner == Member(parsedBody, <<"O", "w", "n", "e", "r">>)
                  buckets == Member(Member(parsedBody, <<"B", "u", "c", "k", "e", "t", "s">>), <<"B", "u", "c", "k", "e", "t">>)
              IN  [Reported(res, txn) EXCEPT
                      !.owner = [id |-> AsString(Member(owner, <<"I", "D">>)),
                                 displayName |->
                                     AsString(Member(owner, <<"D", "i", "s", "p", "l", "a", "y", "N", "a", "m", "e">>))],
                      !.buckets = @ \o [i \in 1..GetSize(buckets) |->
                                          BucketOf(buckets.elements[i])]]
         ELSE [Reported(res, txn) EXCEPT
                  !.errorInfo = ErrorInfo(txn.response.body)]
    ELSE Reported(res, txn)

\* eTag.substr(6, eTag.size() - 12) throws std::out_of_range when the ETag
\* has fewer than 6 characters.
ETagThrows(parsedObject) == Len(AsString(Member(parsedObject, <<"E", "T", "a", "g">>))) < 6

\* eTag.substr(6, eTag.size() - 12): the count is a size_t, so that for
\* fewer than 12 characters it wraps to a count past the end of the string.
StripQuotes(eTag) ==
    IF Len(eTag) >= 12 THEN Substr(eTag, 6, Len(eTag) - 12)
    ELSE SubstrFrom(eTag, 6)

\* sscanf(text, "%zu", &object.size) into a size that starts as 0.  (The
\* sizes of the model carry no sign and no white space.)
SizeOf(text) ==
    LET n == DigitsAt(text, 1)
    IN  IF n = 0 THEN 0 ELSE DecimalValue(SubSeq(text, 1, n))

\* ListObjects, the loop over the objects of a page: one Object.
ObjectOf(parsedObject) ==
    [key |-> AsString(Member(parsedObject, <<"K", "e", "y">>)),
     lastModified |-> TimeOf(AsString(Member(parsedObject, <<"L", "a", "s", "t", "M", "o", "d", "i", "f", "i", "e", "d">>))),
     eTag |-> StripQuotes(AsString(Member(parsedObject, <<"E", "T", "a", "g">>))),
     size |-> SizeOf(AsString(Member(parsedObject, <<"S", "i", "z", "e">>)))]

WithObjects_LastPage(objects, page) == page

\* result.objects after the push_back of each object of a page.
WithObjects(objects, page) == objects \o page

MorePages_Always(token) == TRUE

\* while (!continuationToken.empty())
MorePages(token) == token # <<>>

\* One turn of the loop of ListObjects from AwaitCompletion's return on: the
\* result, the continuation token, and where the thread goes next: to the
\* next turn ("build"), to the return ("return"), or out by an exception
\* ("thrown"), which drops the result.
ListObjectsPage(res, token, txn) ==
    IF IsCompleted(txn)
    THEN IF IsOk(txn.response.statusCode)
         THEN LET parsedBody == XmlToJson(txn.response.body, {<<"C", "o", "n", "t", "e", "n", "t", "s">>})
                  parsedObjects == Member(parsedBody, <<"C", "o", "n", "t", "e", "n", "t", "s">>)
                  numObjects == GetSize(parsedObjects)
                  next == IF AsString(Member(parsedBody, <<"I", "s", "T", "r", "u", "n", "c", "a", "t", "e", "d">>)) = <<"t", "r", "u", "e">>
                          THEN AsString(Member(parsedBody,
                                               <<"N", "e", "x", "t", "C", "o", "n", "t", "i", "n", "u", "a", "t", "i", "o", "n", "T", "o", "k", "e", "n">>))
                          ELSE <<>>
              IN  IF \E i \in 1..numObjects :
                         ETagThrows(parsedObjects.elements[i])
                  THEN [result |-> Reported(res, txn),
                        continuationToken |-> token,
                        pc |-> "thrown"]
                  ELSE [result |->
                            [Reported(res, txn) EXCEPT
                                !.objects = WithObjects(@,
                                    [i \in 1..numObjects |->
                                        ObjectOf(parsedObjects.elements[i])])],
                        continuationToken |-> next,
                        pc |-> IF MorePages(next) THEN "build" ELSE "return"]
         ELSE [result |-> [Reported(res, txn) EXCEPT
                              !.errorInfo = ErrorInfo(txn.response.body)],
               continuationToken |-> token,
               pc |-> "return"]
    ELSE [result |-> Reported(res, txn),
          continuationToken |-> token,
          pc |-> "return"]

\* GetObject from AwaitCompletion's return on: the result.
GetObjectResult(res, txn) ==
    LET withHeaders == [Reported(res, txn) EXCEPT
                           !.headers = txn.response.headers]
    IN  IF IsCompleted(txn)
        THEN IF IsOk(txn.response.statusCode)
             THEN [withHeaders EXCEPT !.content = txn.response.body]
             ELSE [withHeaders EXCEPT
                      !.errorInfo = ErrorInfo(txn.response.body)]
        ELSE withHeaders

(***************************************************************************)
(* The caller of the S3 operations and the HTTP client.  The client ends   *)
(* each transaction it is given: completed with a response of S3 (a        *)
(* listing, an object, an error) or in one of the states of a failure,     *)
(* where the response holds nothing or what had arrived.                   *)
(***************************************************************************)

\* The configurations: without and with a session token.
Configurations ==
    { [region |-> <<"f", "o", "o", "b", "a", "r">>, accessKeyId |-> <<"a", "l", "e", "x", "1", "2", "3">>,
       secretAccessKey |-> <<"l", "e", "t", "m", "e", "i", "n">>, sessionToken |-> t] :
        t \in { <<>>, <<"t", "o", "k">> } }

BucketNames == { <<"m", "y", "_", "b", "u", "c", "k", "e", "t">> }

ObjectNames == { <<"k">>, <<"d", "/", "k">> }

\* The buckets of a listing.
BucketPool ==
    { [name |-> <<"f", "o", "o">>, creationDate |-> <<"2", "0", "1", "8", "-", "0", "2", "-", "0", "1", "T", "0", "8", ":", "3", "0", ":", "1", "2", ".", "1", "2", "3", "Z">>],
      [name |-> <<"b", "a", "r">>, creationDate |-> <<"2", "0", "1", "8", "-", "0", "6", "-", "0", "8", "T", "1", "1", ":", "2", "5", ":", "4", "3", ".", "4", "5", "6", "Z">>] }

\* The body of a listing of buckets.
ListBucketsBody(listed) ==
    XmlDocument(
        << ParentElement(<<"O", "w", "n", "e", "r">>,
               << TextElement(<<"I", "D">>, <<"1", "2", "3", "4", "5">>),
                  TextElement(<<"D", "i", "s", "p", "l", "a", "y", "N", "a", "m", "e">>, <<"a", "l", "e", "x">>) >>),
           ParentElement(<<"B", "u", "c", "k", "e", "t", "s">>,
               [i \in 1..Len(listed) |->
                   ParentElement(<<"B", "u", "c", "k", "e", "t">>,
                       << TextElement(<<"N", "a", "m", "e">>, listed[i].name),
                          TextElement(<<"C", "r", "e", "a", "t", "i", "o", "n", "D", "a", "t", "e">>,
                                      listed[i].creationDate) >>)]) >>)

\* The Contents entries of a page: one as S3 writes it, one whose ETag has
\* lost its closing quote and whose size is empty, one whose ETag has no
\* quotes.
EntryPool ==
    { [key |-> <<"a">>, lastModified |-> <<"2", "0", "1", "9", "-", "0", "3", "-", "0", "3", "T", "0", "5", ":", "2", "2", ":", "1", "6", ".", "1", "2", "1", "Z">>,
       eTag |-> <<"&", "q", "u", "o", "t", ";", "2", "f", "&", "q", "u", "o", "t", ";">>, size |-> <<"1", "5", "6">>],
      [key |-> <<"b">>, lastModified |-> <<"2", "0", "1", "8", "-", "0", "1", "-", "2", "2", "T", "1", "2", ":", "0", "8", ":", "1", "5", ".", "4", "4", "5", "Z">>,
       eTag |-> <<"&", "q", "u", "o", "t", ";", "7", "c">>, size |-> <<>>],
      [key |-> <<"c">>, lastModified |-> <<"2", "0", "1", "9", "-", "0", "3", "-", "0", "3", "T", "0", "5", ":", "2", "2", ":", "1", "6", ".", "1", "2", "1", "Z">>,
       eTag |-> <<"7", "c">>, size |-> <<"3">>] }

\* How a page ends: as the last, as one with more to come, as one that
\* says so but gives no token, and as the last with a token all the same.
PageEnds ==
    { [isTruncated |-> <<"f", "a", "l", "s", "e">>, token |-> <<>>],
      [isTruncated |-> <<"t", "r", "u", "e">>, token |-> <<"t", "1">>],
      [isTruncated |-> <<"t", "r", "u", "e">>, token |-> <<>>],
      [isTruncated |-> <<"f", "a", "l", "s", "e">>, token |-> <<"t", "9">>] }

\* The body of a page of a listing of objects.
ListObjectsBody(entries, end) ==
    XmlDocument(
        << TextElement(<<"I", "s", "T", "r", "u", "n", "c", "a", "t", "e", "d">>, end.isTruncated) >>
        \o [i \in 1..Len(entries) |->
               ParentElement(<<"C", "o", "n", "t", "e", "n", "t", "s">>,
                   << TextElement(<<"K", "e", "y">>, entries[i].key),
                      TextElement(<<"L", "a", "s", "t", "M", "o", "d", "i", "f", "i", "e", "d">>, entries[i].lastModified),
                      TextElement(<<"E", "T", "a", "g">>, entries[i].eTag),
                      TextElement(<<"S", "i", "z", "e">>, entries[i].size) >>)]
        \o (IF end.isTruncated = <<"t", "r", "u", "e">> \/ end.token # <<>>
            THEN << TextElement(<<"N", "e", "x", "t", "C", "o", "n", "t", "i", "n", "u", "a", "t", "i", "o", "n", "T", "o", "k", "e", "n">>, end.token) >>
            ELSE <<>>))

\* The body of an error.
ErrorBody == XmlDocument(<< TextElement(<<"C", "o", "d", "e">>, <<"A", "c", "c", "e", "s", "s", "D", "e", "n", "i", "e", "d">>) >>)

ResponseHeaders == << Header(<<"C", "o", "n", "t", "e", "n", "t", "-", "T", "y", "p", "e">>, <<"t", "e", "x", "t", "/", "p", "l", "a", "i", "n">>) >>

\* How a transaction ends: the state, the response, and of a page of
\* objects its entries, whether it is truncated and gives a token, and the
\* token it gives if it is.
Outcome(state, statusCode, headers, body, entries, truncated, token) ==
    [state |-> state,
     response |-> [statusCode |-> statusCode, headers |-> headers,
                   body |-> body],
     entries |-> entries,
     truncated |-> truncated,
     token |-> token]

\* The failures: no connection, a timeout, and a connection broken after
\* the headers and a part of the body.
Failures ==
    { Outcome("UnableToConnect", 0, <<>>, <<>>, <<>>, FALSE, <<>>),
      Outcome("Timeout", 0, <<>>, <<>>, <<>>, FALSE, <<>>),
      Outcome("Broken", 200, ResponseHeaders, SubSeq(ErrorBody, 1, 12),
              <<>>, FALSE, <<>>) }

\* The errors: one with a body and one without.
Errors ==
    { Outcome("Completed", 403, ResponseHeaders, ErrorBody, <<>>, FALSE, <<>>),
      Outcome("Completed", 500, <<>>, <<>>, <<>>, FALSE, <<>>) }

\* The ends of a transaction of the operation, the server having listed the
\* given number of objects.
Outcomes(op, listed) ==
    Failures \cup Errors \cup
    (IF op = "ListBuckets"
     THEN { Outcome("Completed", 200, ResponseHeaders, ListBucketsBody(b),
                    <<>>, FALSE, <<>>) : b \in SeqUpTo(BucketPool, 2) }
     ELSE IF op = "ListObjects"
     THEN { Outcome("Completed", 200, ResponseHeaders,
                    ListObjectsBody(x[1], x[2]), x[1],
                    x[2].isTruncated = <<"t", "r", "u", "e">> /\ x[2].token # <<>>,
                    IF x[2].isTruncated = <<"t", "r", "u", "e">>
                    THEN x[2].token ELSE <<>>) :
              x \in SeqUpTo(EntryPool, MaxObjects - listed) \X PageEnds }
     ELSE { Outcome("Completed", 200, ResponseHeaders, c, <<>>, FALSE, <<>>) :
              c \in { <<"h", "e", "l", "l", "o">>, <<>> } })

S3Init ==
    /\ operation = ""
    /\ impl \in Configurations
    /\ bucketName = <<>>
    /\ objectName = <<>>
    /\ amzDate = <<"2", "0", "1", "8", "0", "2", "0", "1", "T", "0", "8", "3", "0", "1", "2", "Z">>
    /\ continuationToken = <<>>
    /\ request = <<>>
    /\ signing = NotSigned
    /\ transaction = NoTransaction
    /\ result = NewResult
    /\ future = "none"
    /\ served = [entries |-> <<>>, truncated |-> FALSE, token |-> <<>>]
    /\ bodyUse = "none"
    /\ s3Pc = "uncalled"
    /\ SignIdle
    /\ TimestampIdle
    /\ ConfigIdle
    /\ XmlIdle

\* S3::ListBuckets: the thread starts and the caller gets its future.
ListBuckets ==
    /\ s3Pc = "uncalled"
    /\ operation' = "ListBuckets"
    /\ future' = "pending"
    /\ s3Pc' = "build"
    /\ UNCHANGED <<impl, bucketName, objectName, amzDate, continuationToken,
                   request, signing, transaction, result, served, bodyUse>>
    /\ UNCHANGED notS3Vars

\* S3::ListObjects.
ListObjects ==
    /\ s3Pc = "uncalled"
    /\ operation' = "ListObjects"
    /\ bucketName' \in BucketNames
    /\ future' = "pending"
    /\ s3Pc' = "build"
    /\ UNCHANGED <<impl, objectName, amzDate, continuationToken, request,
                   signing, transaction, result, served, bodyUse>>
    /\ UNCHANGED notS3Vars

\* S3::GetObject.
GetObject ==
    /\ s3Pc = "uncalled"
    /\ operation' = "GetObject"
    /\ bucketName' \in BucketNames
    /\ objectName' \in ObjectNames
    /\ future' = "pending"
    /\ s3Pc' = "build"
    /\ UNCHANGED <<impl, amzDate, continuationToken, request, signing,
                   transaction, result, served, bodyUse>>
    /\ UNCHANGED notS3Vars

\* The thread builds its request; in ListObjects this starts a turn of the
\* loop, whose locals are new.
BuildRequest ==
    /\ s3Pc = "build"
    /\ request' = NewRequest(S3Host(impl.region),
                             PathOf(operation, bucketName, objectName),
                             operation = "ListObjects",
                             IF operation = "ListObjects"
                             THEN ListObjectsQuery(continuationToken)
                             ELSE <<>>,
                             amzDate)
    /\ signing' = NotSigned
    /\ transaction' = NoTransaction
    /\ bodyUse' = "none"
    /\ s3Pc' = "sign"
    /\ UNCHANGED <<operation, impl, bucketName, objectName, amzDate,
                   continuationToken, result, future, served>>
    /\ UNCHANGED notS3Vars

\* The thread computes the canonical request, the string to sign and the
\* authorization, and adds the headers that carry them.
SignRequest ==
    /\ s3Pc = "sign"
    /\ signing' = Signing(request, impl)
    /\ request' = WithSignature(request, signing', impl.sessionToken)
    /\ s3Pc' = "send"
    /\ UNCHANGED <<operation, impl, bucketName, objectName, amzDate,
                   continuationToken, transaction, result, future, served,
                   bodyUse>>
    /\ UNCHANGED notS3Vars

\* impl->http->Request(request): the client receives the request and gives
\* back a transaction in progress.
SendRequest ==
    /\ s3Pc = "send"
    /\ transaction' = [request |-> request, state |-> "InProgress",
                       response |-> NoResponse]
    /\ s3Pc' = "await"
    /\ UNCHANGED <<operation, impl, bucketName, objectName, amzDate,
                   continuationToken, request, signing, result, future,
                   served, bodyUse>>
    /\ UNCHANGED notS3Vars

\* The client ends the transaction.
ClientCompletes ==
    /\ transaction.state = "InProgress"
    /\ \E o \in Outcomes(operation, Len(served.entries)) :
          /\ transaction' = [transaction EXCEPT !.state = o.state,
                                                !.response = o.response]
          /\ served' = [entries |-> served.entries \o o.entries,
                        truncated |-> o.truncated,
                        token |-> o.token]
    /\ UNCHANGED <<operation, impl, bucketName, objectName, amzDate,
                   continuationToken, request, signing, result, future,
                   bodyUse, s3Pc>>
    /\ UNCHANGED notS3Vars

\* transaction->AwaitCompletion() returns.
AwaitCompletion ==
    /\ s3Pc = "await"
    /\ AwaitedCompletion(transaction)
    /\ s3Pc' = "respond"
    /\ UNCHANGED <<operation, impl, bucketName, objectName, amzDate,
                   continuationToken, request, signing, transaction, result,
                   future, served, bodyUse>>
    /\ UNCHANGED notS3Vars

\* ListBuckets reads the transaction.
ListBucketsResponse ==
    /\ s3Pc = "respond"
    /\ operation = "ListBuckets"
    /\ result' = ListBucketsResult(result, transaction)
    /\ bodyUse' = IF IsCompleted(transaction) THEN "transcoded" ELSE "none"
    /\ s3Pc' = "return"
    /\ UNCHANGED <<operation, impl, bucketName, objectName, amzDate,
                   continuationToken, request, signing, transaction, future,
                   served>>
    /\ UNCHANGED notS3Vars

\* ListObjects reads the transaction and ends the turn of its loop.
ListObjectsResponse ==
    /\ s3Pc = "respond"
    /\ operation = "ListObjects"
    /\ LET turn == ListObjectsPage(result, continuationToken, transaction)
       IN  /\ result' = turn.result
           /\ continuationToken' = turn.continuationToken
           /\ s3Pc' = turn.pc
    /\ bodyUse' = IF IsCompleted(transaction) THEN "transcoded" ELSE "none"
    /\ UNCHANGED <<operation, impl, bucketName, objectName, amzDate, request,
                   signing, transaction, future, served>>
    /\ UNCHANGED notS3Vars

\* GetObject reads the transaction.
GetObjectResponse ==
    /\ s3Pc = "respond"
    /\ operation = "GetObject"
    /\ result' = GetObjectResult(result, transaction)
    /\ bodyUse' = IF IsCompleted(transaction)
                  THEN IF IsOk(transaction.response.statusCode)
                       THEN "copied"
                       ELSE "transcoded"
                  ELSE "none"
    /\ s3Pc' = "return"
    /\ UNCHANGED <<operation, impl, bucketName, objectName, amzDate,
                   continuationToken, request, signing, transaction, future,
                   served>>
    /\ UNCHANGED notS3Vars

\* return result: the future holds the result.
ReturnResult ==
    /\ s3Pc = "return"
    /\ future' = "ready"
    /\ s3Pc' = "done"
    /\ UNCHANGED <<operation, impl, bucketName, objectName, amzDate,
                   continuationToken, request, signing, transaction, result,
                   served, bodyUse>>
    /\ UNCHANGED notS3Vars

\* The exception leaves the thread's function: the future holds it.
ThrowOutOfRange ==
    /\ s3Pc = "thrown"
    /\ future' = "exception"
    /\ s3Pc' = "done"
    /\ UNCHANGED <<operation, impl, bucketName, objectName, amzDate,
                   continuationToken, request, signing, transaction, result,
                   served, bodyUse>>
    /\ UNCHANGED notS3Vars

\* The steps of the thread.
S3Thread ==
    \/ BuildRequest
    \/ SignRequest
    \/ SendRequest
    \/ AwaitCompletion
    \/ ListBucketsResponse
    \/ ListObjectsResponse
    \/ GetObjectResponse
    \/ ReturnResult
    \/ ThrowOutOfRange

S3Next ==
    \/ ListBuckets
    \/ ListObjects
    \/ GetObject
    \/ S3Thread
    \/ ClientCompletes

S3Spec == S3Init /\ [][S3Next]_vars

\* The positions at which the thread has a step to take.
ThreadPositions ==
    {"build", "sign", "send", "await", "respond", "return", "thrown"}

\* The thread takes a step, whichever: it leaves its position, which at
\* AwaitCompletion it can only once the transaction has ended.
ThreadSteps ==
    /\ s3Pc \in ThreadPositions
    /\ s3Pc = "await" => AwaitedCompletion(transaction)
    /\ s3Pc' \in (ThreadPositions \cup {"done"}) \ {s3Pc}

\* The thread runs on while it has a step to take, and the client ends
\* every transaction it is given.
S3FairSpec ==
    S3Init /\ [][S3Next]_vars /\ WF_s3Pc(ThreadSteps) /\ WF_vars(ClientCompletes)

(***************************************************************************)
(* What the properties below read of a state.                              *)
(***************************************************************************)

\* ConstructCanonicalRequest has been called, with a request that parses.
Constructed ==
    /\ caller = "request"
    /\ pc # "start"
    /\ ParseRequest(rawRequest) # <<>>

\* The request ConstructCanonicalRequest worked on.
ParsedRequest == ParseRequest(rawRequest)[1]

\* The lines of the canonical request.
CanonicalLines == Split(canonicalRequest, "\n")

\* The lines of the canonical header block: those after the method, the
\* path and the query, up to the empty line before the signed headers.
HeaderBlock == SubSeq(CanonicalLines, 4, Len(CanonicalLines) - 3)

\* The name and the value of a line "name:value" of the header block.
NameOf(line) == Substr(line, 0, Find(line, ":"))

ValueOf(line) == SubstrFrom(line, Find(line, ":") + 1)

BlockNames == [i \in 1..Len(HeaderBlock) |-> NameOf(HeaderBlock[i])]

\* The signed-headers line: the line before the payload hash.
SignedHeadersLine == CanonicalLines[Len(CanonicalLines) - 1]

\* No upper-case letter is in s.
IsLowerCase(s) == \A i \in 1..Len(s) : ~(Ascii[s[i]] >= 65 /\ Ascii[s[i]] <= 90)

\* The name of a request header, in lower case.
LowerName(h) == ToLower(h.name)

(***************************************************************************)
(* C1.  For every raw request that ConstructCanonicalRequest parses, the   *)
(* header names of the canonical header block and the names of the         *)
(* signed-headers line are the same sequence: every name is the lower-cased*)
(* name of a request header, the names are in strictly ascending byte      *)
(* order (each distinct name once), and the signed-headers line is those   *)
(* names joined by ";".                                                    *)
(***************************************************************************)
C1_HeaderNamesAgree ==
    Constructed =>
        /\ Len(CanonicalLines) = 6 + Len(HeaderBlock)
        /\ BlockNames = Split(SignedHeadersLine, ";")
        /\ SignedHeadersLine = Join(BlockNames, <<";">>)
        /\ \A i \in 1..Len(BlockNames) : IsLowerCase(BlockNames[i])
        /\ \A i \in 1..(Len(BlockNames) - 1) :
               StrLess(BlockNames[i], BlockNames[i + 1])
        /\ {BlockNames[i] : i \in 1..Len(BlockNames)}
               = {LowerName(rawRequest.headers[i]) :
                      i \in 1..Len(rawRequest.headers)}

\* Three headers given out of order, two of which share a name up to case.
C1_Witness ==
    /\ Constructed
    /\ Len(rawRequest.headers) = 3
    /\ Len(BlockNames) = 2
    /\ StrLess(LowerName(rawRequest.headers[2]), LowerName(rawRequest.headers[1]))
    /\ ~IsLowerCase(rawRequest.headers[1].name)

(***************************************************************************)
(* C2.  For every list of query pieces, the canonical query line is the    *)
(* same for every permutation of the pieces: it holds exactly the pairs of *)
(* the pieces (none lost, none duplicated), ordered by name and, for equal *)
(* names, by value, joined by "&".                                         *)
(***************************************************************************)

\* The canonical query line of the request with the query pieces given.
QueryLineOf(parts) ==
    CanonicalQueryString([ParsedRequest EXCEPT !.query = Join(parts, <<"&">>)])

\* The permutations of a sequence.
PermutationsOf(parts) ==
    { [i \in 1..Len(parts) |-> parts[f[i]]] : f \in Permutations(1..Len(parts)) }

\* The third line of the canonical request.
QueryLine == CanonicalLines[3]

\* "name=value" for every piece, a piece being "name" or "name=value".
PairTexts(parts) ==
    [i \in 1..Len(parts) |->
        ParseParameter(parts[i]).name \o <<"=">> \o ParseParameter(parts[i]).value]

\* How many of the elements of v equal x.
Count(v, x) == Cardinality({i \in 1..Len(v) : v[i] = x})

C2_QueryOrderIndependent ==
    (Constructed /\ rawRequest.hasQuery) =>
        /\ \A p \in PermutationsOf(queryParts) : QueryLineOf(p) = QueryLine
        /\ LET emitted == Split(QueryLine, "&")
               given == PairTexts(queryParts)
           IN  /\ Len(emitted) = Len(given)
               /\ \A i \in 1..Len(given) :
                      Count(emitted, given[i]) = Count(given, given[i])
               /\ \A i \in 1..(Len(emitted) - 1) :
                      ~ParameterLess(ParseParameter(emitted[i + 1]),
                                     ParseParameter(emitted[i]))

(***************************************************************************)
(* C3.  For every request in which a header name occurs several times      *)
(* (compared without regard to case), the canonical header block has       *)
(* exactly one line for the lower-cased name, and its value part is all of *)
(* that name's values, joined by "," in the order they had in the request: *)
(* none dropped, duplicated or reordered.                                  *)
(***************************************************************************)

\* The values the request gives for the header name k, in request order,
\* each in the form the canonical request writes it in.
ValuesGivenFor(k) ==
    LET named(h) == LowerName(h) = k
        given == SelectSeq(ParsedRequest.headers, named)
    IN  [i \in 1..Len(given) |-> CanonicalizeSpaces(given[i].value)]

C3_ValuesJoinedInOrder ==
    Constructed =>
        \A j \in 1..Len(rawRequest.headers) :
            LET k == LowerName(rawRequest.headers[j])
                linesOfK == {i \in 1..Len(HeaderBlock) : NameOf(HeaderBlock[i]) = k}
            IN  /\ Cardinality(linesOfK) = 1
                /\ \A i \in linesOfK :
                       HeaderBlock[i] = k \o <<":">> \o Join(ValuesGivenFor(k), <<",">>)

\* A name given three times, in two cases, with three different values.
C3_Witness ==
    /\ Constructed
    /\ Len(rawRequest.headers) = 3
    /\ Len(HeaderBlock) = 1
    /\ Len(ValuesGivenFor(NameOf(HeaderBlock[1]))) = 3
    /\ Cardinality({rawRequest.headers[i] : i \in 1..3}) = 3

(***************************************************************************)
(* C4.  For every header value of the request, the value written in the    *)
(* canonical header block holds no run of two or more spaces and has no    *)
(* white space at its start or at its end.                                 *)
(***************************************************************************)
C4_ValuesCanonical ==
    Constructed =>
        \A i \in 1..Len(HeaderBlock) :
            LET values == Split(ValueOf(HeaderBlock[i]), ",") IN
            \A j \in 1..Len(values) :
                LET v == values[j] IN
                /\ \A n \in 1..(Len(v) - 1) : ~(v[n] = " " /\ v[n + 1] = " ")
                /\ v # <<>> => (v[1] \notin WSP /\ v[Len(v)] \notin WSP)

\* A value given with a run of spaces inside it and white space around it.
C4_Witness ==
    /\ Constructed
    /\ \E i \in 1..Len(rawRequest.headers) :
           LET v == rawRequest.headers[i].value IN
           /\ Len(v) > 3
           /\ v[1] \in WSP
           /\ v[Len(v)] \in WSP
           /\ \E n \in 2..(Len(v) - 2) : v[n] = " " /\ v[n + 1] = " "

(***************************************************************************)
(* C5.  ConstructCanonicalRequest returns the empty string if and only if  *)
(* the raw request cannot be parsed: for every request that parses, the    *)
(* result is not empty.                                                    *)
(***************************************************************************)
C5_EmptyIffUnparsed ==
    (caller = "request" /\ pc # "start") =>
        (canonicalRequest = <<>> <=> ParseRequest(rawRequest) = <<>>)

\* A request whose request line does not parse has been given.
C5_Witness ==
    /\ caller = "request"
    /\ pc = "canonical"
    /\ ParseRequest(rawRequest) = <<>>
    /\ rawRequest.method # <<>>

(***************************************************************************)
(* What the properties of MakeStringToSign and MakeAuthorization read.     *)
(***************************************************************************)

\* MakeStringToSign has been called.
Signed == pc \in {"signed", "done", "crashed"}

\* The lines of the canonical request that start with "x-amz-date:".
DateLines ==
    {i \in 1..Len(CanonicalLines) :
        /\ Len(CanonicalLines[i]) >= Len(X_AMZ_DATE_PREFIX)
        /\ SubSeq(CanonicalLines[i], 1, Len(X_AMZ_DATE_PREFIX)) = X_AMZ_DATE_PREFIX}

\* The text after "x-amz-date:" on the first of those lines.
Timestamp ==
    LET first == CHOOSE i \in DateLines : \A j \in DateLines : i <= j
    IN  SubSeq(CanonicalLines[first], Len(X_AMZ_DATE_PREFIX) + 1,
               Len(CanonicalLines[first]))

\* The first n characters of s, or all of s when it is shorter.
Prefix(s, n) == SubSeq(s, 1, IF Len(s) < n THEN Len(s) ELSE n)

AWS4_REQUEST == <<"a", "w", "s", "4", "_", "r", "e", "q", "u", "e", "s", "t">>

\* The lines of the string to sign, and the parts of its third line.
SignLines == Split(stringToSign, "\n")

ScopeParts == Split(SignLines[3], "/")

\* The signature the authorization ends with: what follows its last "=".
SignatureOf(a) == SubstrFrom(a, FindLastOf(a, "=") + 1)

\* The signature of the message under the key derived from the secret by
\* four HMACs over the four values given, in that order, each as it is.
ChainedSignature(secret, date, reg, svc, terminator, message) ==
    HexString(
        Hmac(Hmac(Hmac(Hmac(Hmac(Bytes(AWS4 \o secret), Bytes(date)),
                            Bytes(reg)),
                       Bytes(svc)),
                  Bytes(terminator)),
             Bytes(message)))

(***************************************************************************)
(* C6.  For every region, service and canonical request with a line that   *)
(* starts with "x-amz-date:", MakeStringToSign returns four lines joined   *)
(* by line breaks: "AWS4-HMAC-SHA256"; the text after "x-amz-date:" on the *)
(* first such line; the first 8 characters of that text, "/", the region,  *)
(* "/", the service, "/aws4_request"; and the hex SHA-256 of the whole     *)
(* canonical request.                                                      *)
(***************************************************************************)
C6_StringToSignLines ==
    (Signed /\ DateLines # {}) =>
        /\ stringToSign =
               Join(<<HASH_ALGORITHM,
                      Timestamp,
                      Prefix(Timestamp, 8) \o <<"/">> \o region \o <<"/">>
                          \o service \o <<"/">> \o AWS4_REQUEST,
                      Sha256StringToString(canonicalRequest)>>,
                    <<"\n">>)
        /\ Len(SignLines) = 4

\* Two lines start with "x-amz-date:" and give different timestamps.
C6_Witness ==
    /\ Signed
    /\ \E i, j \in DateLines : CanonicalLines[i] # CanonicalLines[j]

(***************************************************************************)
(* C7.  As claimed: when no line of the canonical request starts with      *)
(* "x-amz-date:", MakeStringToSign does not throw and returns an empty or  *)
(* sentinel result, one a caller can tell from a successful string to sign.*)
(* A caller tells a result from a successful one by its algorithm,         *)
(* timestamp or scope line; the digest is different for every request.     *)
(***************************************************************************)

\* The canonical request of GET / with the single header "X-Amz-Date:",
\* whose value is empty: it has a line that starts with "x-amz-date:".
EmptyDateCanonicalRequest ==
    ConstructCanonicalRequest(
        RawRequest(GET, HTTP_1_1, << <<>> >>, FALSE, <<>>,
                   << [name  |-> <<"X", "-", "A", "m", "z", "-", "D", "a", "t", "e">>,
                       value |-> <<>>] >>,
                   <<>>))

C7_MissingDateTellsApart ==
    (Signed /\ DateLines = {}) =>
        \/ stringToSign = <<>>
        \/ SubSeq(SignLines, 1, 3)
               # SubSeq(Split(MakeStringToSign(region, service,
                                               EmptyDateCanonicalRequest), "\n"),
                        1, 3)

(***************************************************************************)
(* C7, amended.  When no line of the canonical request starts with         *)
(* "x-amz-date:", MakeStringToSign does not throw and returns four lines:  *)
(* "AWS4-HMAC-SHA256", an empty timestamp, "/<region>/<service>/           *)
(* aws4_request" and the hex SHA-256 of the canonical request.  The result *)
(* is not empty, and its first three lines are those of the string to sign *)
(* of a request whose x-amz-date header is empty.                          *)
(***************************************************************************)
C7_MissingDateGivesEmptyTimestamp ==
    (Signed /\ DateLines = {}) =>
        /\ stringToSign # <<>>
        /\ stringToSign =
               Join(<<HASH_ALGORITHM,
                      <<>>,
                      <<"/">> \o region \o <<"/">> \o service \o <<"/">>
                          \o AWS4_REQUEST,
                      Sha256StringToString(canonicalRequest)>>,
                    <<"\n">>)
        /\ SubSeq(SignLines, 1, 3)
               = SubSeq(Split(MakeStringToSign(region, service,
                                               EmptyDateCanonicalRequest), "\n"),
                        1, 3)

\* A canonical request made from a request without an x-amz-date header.
C7_Witness ==
    /\ Signed
    /\ Constructed
    /\ DateLines = {}
    /\ Len(rawRequest.headers) > 0

(***************************************************************************)
(* C8.  MakeAuthorization derives the signing key as                       *)
(* HMAC(HMAC(HMAC(HMAC("AWS4" + secret, date), region), service),          *)
(* terminator), where date, region, service and terminator are the first   *)
(* to fourth "/"-separated parts of the third line of the string to sign,  *)
(* in that order and as raw bytes; the signature is the lower-case hex     *)
(* HMAC of the whole string to sign under that key.                        *)
(***************************************************************************)
C8_SignatureFromChain ==
    pc = "done" =>
        SignatureOf(authorization) =
            ChainedSignature(accessKeySecret, ScopeParts[1], ScopeParts[2],
                             ScopeParts[3], ScopeParts[4], stringToSign)

\* An authorization made for a region and a service that differ from the
\* terminator and from each other.
C8_Witness ==
    /\ pc = "done"
    /\ Constructed
    /\ Len(ScopeParts) = 4
    /\ Cardinality({ScopeParts[i] : i \in 1..4}) = 4
    /\ region # <<>>
    /\ service = <<"i", "a", "m">>

(***************************************************************************)
(* C9.  For every canonical request made by ConstructCanonicalRequest and  *)
(* string to sign made from it by MakeStringToSign, MakeAuthorization      *)
(* returns the single line "AWS4-HMAC-SHA256 Credential=<accessKeyId>/     *)
(* <third line of the string to sign>, SignedHeaders=<line before the last *)
(* of the canonical request>, Signature=<signature>", and that             *)
(* SignedHeaders value is the signed-headers line ConstructCanonicalRequest*)
(* wrote.                                                                  *)
(***************************************************************************)
C9_AuthorizationLine ==
    (pc = "done" /\ Constructed) =>
        /\ authorization =
               HASH_ALGORITHM
                   \o CREDENTIAL_LABEL \o accessKeyId \o <<"/">> \o SignLines[3]
                   \o SIGNED_HEADERS_LABEL
                   \o CanonicalLines[Len(CanonicalLines) - 1]
                   \o SIGNATURE_LABEL
                   \o ChainedSignature(accessKeySecret, ScopeParts[1],
                                       ScopeParts[2], ScopeParts[3],
                                       ScopeParts[4], stringToSign)
        /\ CanonicalLines[Len(CanonicalLines) - 1]
               = SignedHeaders(HeadersVector(ParsedRequest), TRUE)
        /\ \A i \in 1..Len(authorization) : authorization[i] # "\n"

\* An authorization for a request with a query and two headers.
C9_Witness ==
    /\ pc = "done"
    /\ Constructed
    /\ Len(queryParts) = 2
    /\ Len(Split(SignedHeadersLine, ";")) = 2

(***************************************************************************)
(* C10.  As claimed: for every string to sign made by MakeStringToSign     *)
(* (any region, any service, any canonical request), its third line split  *)
(* on "/" has exactly 4 parts: date, region, service, terminator.          *)
(***************************************************************************)

\* The timestamp MakeStringToSign found: empty when there is no date line.
FoundTimestamp == IF DateLines = {} THEN <<>> ELSE Timestamp

C10_ScopeHasFourParts ==
    Signed =>
        ScopeParts = <<Prefix(FoundTimestamp, 8), region, service, AWS4_REQUEST>>

(***************************************************************************)
(* C10, amended.  For every string to sign made by MakeStringToSign with a *)
(* region and a service that hold neither "/" nor a line break, from a     *)
(* canonical request whose timestamp has no "/" in its first 8 characters, *)
(* the third line split on "/" has exactly 4 parts: the first 8 characters *)
(* of the timestamp, the region, the service and "aws4_request"; they are  *)
(* the four values MakeAuthorization feeds to the HMAC chain.              *)
(***************************************************************************)
NoSlash(s) == \A i \in 1..Len(s) : s[i] # "/" /\ s[i] # "\n"

C10_ScopeHasFourPartsWithoutSlash ==
    (Signed /\ NoSlash(region) /\ NoSlash(service)
        /\ NoSlash(Prefix(FoundTimestamp, 8))) =>
        /\ Len(ScopeParts) = 4
        /\ ScopeParts = <<Prefix(FoundTimestamp, 8), region, service, AWS4_REQUEST>>
        /\ pc = "done" =>
               SignatureOf(authorization) =
                   ChainedSignature(accessKeySecret, Prefix(FoundTimestamp, 8),
                                    region, service, AWS4_REQUEST, stringToSign)

\* An authorization for the empty region: the scope has an empty part.
C10_Witness ==
    /\ pc = "done"
    /\ region = <<>>
    /\ DateLines # {}
    /\ Len(ScopeParts) = 4

(***************************************************************************)
(* C11.  Header canonicalization is idempotent: CanonicalizeSpaces applied *)
(* to a value it has already collapsed returns that value, and a request   *)
(* whose headers are the lines of a canonical header block (lower-case,    *)
(* sorted, collapsed) has that same header block and the same signed       *)
(* headers.                                                                *)
(***************************************************************************)

\* The request whose headers are the lines of the header block, in order.
CanonicalizedRequest ==
    RawRequest(GET, HTTP_1_1, << <<>> >>, FALSE, <<>>,
               [i \in 1..Len(HeaderBlock) |->
                   [name  |-> NameOf(HeaderBlock[i]),
                    value |-> ValueOf(HeaderBlock[i])]],
               <<>>)

\* The header block and the signed-headers line of a canonical request.
HeaderBlockOf(canonical) ==
    LET lines == Split(canonical, "\n")
    IN  SubSeq(lines, 4, Len(lines) - 1)

C11_CanonicalizationIdempotent ==
    Constructed =>
        /\ \A i \in 1..Len(ParsedRequest.headers) :
               LET v == ParsedRequest.headers[i].value IN
               CanonicalizeSpaces(CanonicalizeSpaces(v)) = CanonicalizeSpaces(v)
        /\ \A i \in 1..Len(HeaderBlock) :
               CanonicalizeSpaces(ValueOf(HeaderBlock[i])) = ValueOf(HeaderBlock[i])
        /\ HeaderBlockOf(ConstructCanonicalRequest(CanonicalizedRequest))
               = HeaderBlockOf(canonicalRequest)

\* A request with a value that holds a run of three spaces, and with two
\* headers of one name.
C11_Witness ==
    /\ Constructed
    /\ Len(HeaderBlock) = 2
    /\ Len(rawRequest.headers) = 3
    /\ \E i \in 1..Len(rawRequest.headers) :
           LET v == rawRequest.headers[i].value IN
           \E n \in 1..(Len(v) - 2) :
               v[n] = " " /\ v[n + 1] = " " /\ v[n + 2] = " "

(***************************************************************************)
(* C19.  For every valid UTC timestamp "YYYY-MM-DDTHH:MM:SS.mmmZ" at or    *)
(* after 1970-01-01, years after 2038 included, the whole seconds of       *)
(* ParseTimestamp's result, as the code's int arithmetic computes them,    *)
(* are the seconds from the UNIX epoch to that instant, leap years counted *)
(* by the Gregorian rule.                                                  *)
(***************************************************************************)

\* The days from 1970-01-01 to a day of the Gregorian calendar, counted in
\* eras of 400 years that begin on a 1st of March.
EpochDays(year, month, day) ==
    LET y == IF month <= 2 THEN year - 1 ELSE year
        era == y \div 400
        yearOfEra == y - era * 400
        dayOfYear == (153 * (IF month > 2 THEN month - 3 ELSE month + 9) + 2)
                         \div 5 + day - 1
        dayOfEra == yearOfEra * 365 + yearOfEra \div 4 - yearOfEra \div 100
                        + dayOfYear
    IN  era * 146097 + dayOfEra - 719468

\* The call of ParseTimestamp is over.
TimestampParsed == tsPc \in {"done", "trapped"}

\* The days and the second of the day in days * 86400 + second, a number of
\* seconds that is not negative.
SecondsAre(seconds, days, secondOfDay) ==
    /\ seconds >= 0
    /\ seconds \div 86400 = days
    /\ seconds % 86400 = secondOfDay

C19_SecondsSinceEpoch ==
    TimestampParsed =>
        /\ tsPc = "done"
        /\ SecondsAre(parsed.seconds, EpochDays(civil[1], civil[2], civil[3]),
                      civil[4] * 3600 + civil[5] * 60 + civil[6])

(***************************************************************************)
(* C20.  As claimed: Config::FromString maps each "[name]" line to a       *)
(* top-level object keyed by the trimmed name, each following              *)
(* "key = value" line to a string entry (key and value trimmed) in the     *)
(* innermost open container, and a "key =" line with an empty value        *)
(* followed by more-indented lines to a nested object holding exactly      *)
(* those lines; the lines may be separated by any mix of CR and LF, and    *)
(* blank lines are ignored.                                                *)
(***************************************************************************)

\* The number of spaces a line starts with.
IndentationOf(line) ==
    Cardinality({i \in 1..Len(line) : \A j \in 1..i : line[j] = " "})

\* The containers open after the lines indented as much as a line or more
\* are closed: a key without a value stays open for the lines indented more
\* than it, a section for every line.
RECURSIVE StillOpen(_, _)
StillOpen(open, indentation) ==
    IF Len(open) > 1 /\ open[Len(open)].indentation >= indentation
    THEN StillOpen(SubSeq(open, 1, Len(open) - 1), indentation)
    ELSE open

\* The tree the claim describes for a sequence of lines, read from r on:
\* r.tree is the tree so far, r.open the open containers, the section first,
\* each with the indentation of its own line and of its lines (-1 while it
\* has none), and r.regular tells whether every key line so far is indented
\* exactly as the lines of its container, those of a section not at all.
RECURSIVE Described(_, _)
Described(r, lines) ==
    IF lines = <<>> THEN r
    ELSE
    LET line == Head(lines)
        i == IndentationOf(line)
        next ==
            IF line[1] = "["
            THEN LET name == Trim(SubSeq(line, 2, Len(line) - 1)) IN
                 [tree |-> ObjectSet(r.tree, name, EmptyObject),
                  open |-> <<[indentation |-> -1, lines |-> 0,
                              path |-> <<name>>]>>,
                  regular |-> r.regular]
            ELSE IF r.open = <<>> THEN r
            ELSE
            LET open == StillOpen(r.open, i)
                top == open[Len(open)]
                at == Find(line, "=")
                key == Trim(Substr(line, 0, at))
                value == Trim(SubstrFrom(line, at + 1))
                container == GetAt(r.tree, top.path)
                entered == [open EXCEPT ![Len(open)].lines = i]
            IN  [tree |-> SetAt(r.tree, top.path,
                                ObjectSet(container, key,
                                          IF value = <<>> THEN EmptyObject
                                          ELSE JsonString(value))),
                 open |-> IF value = <<>>
                          THEN Append(entered,
                                      [indentation |-> i, lines |-> -1,
                                       path |-> top.path \o <<key>>])
                          ELSE entered,
                 regular |-> r.regular /\ (top.lines = -1 \/ top.lines = i)]
    IN  Described(next, Tail(lines))

DescribedConfig ==
    Described([tree |-> EmptyObject, open |-> <<>>, regular |-> TRUE],
              configLines)

C20_FromStringBuildsTree ==
    cfgPc = "done" => config = DescribedConfig.tree

(***************************************************************************)
(* C20, amended.  The same, for configurations in which every key line is  *)
(* indented exactly as the other lines of its container: not at all        *)
(* directly in a section, and in a nested object as the first line after   *)
(* the "key =" line that opened it.                                        *)
(***************************************************************************)
C20_FromStringBuildsRegularTree ==
    (cfgPc = "done" /\ DescribedConfig.regular) =>
        config = DescribedConfig.tree

\* A configuration of two sections, one with an object nested in an object,
\* read with line breaks of two characters.
C20_Witness ==
    /\ cfgPc = "done"
    /\ DescribedConfig.regular
    /\ Len(configLines) = 5
    /\ Cardinality(DOMAIN config.members) = 2
    /\ \E s \in DOMAIN config.members :
           \E a \in DOMAIN config.members[s].members :
               /\ config.members[s].members[a].type = "Object"
               /\ \E b \in DOMAIN config.members[s].members[a].members :
                      config.members[s].members[a].members[b].type = "String"
    /\ \E i \in 1..(Len(configString) - 1) :
           configString[i] = "\r" /\ configString[i + 1] = "\n"

(***************************************************************************)
(* C12.  As claimed: for every document and every tag in the array set,    *)
(* the N occurrences of that tag under one parent element, adjacent or     *)
(* not, are collected into one array of length N, element i holding the    *)
(* content of the i-th occurrence in document order; N = 1 still yields an *)
(* array, and no occurrence overwrites another.                            *)
(***************************************************************************)

\* XmlToJson has returned.
XmlDone == xmlPc = "done"

\* The elements of a sequence that carry the tag, in their order.
Occurrences(elements, tag) ==
    LET carries(e) == e.tag = tag IN SelectSeq(elements, carries)

\* The tags of a sequence of elements.
TagsOf(elements) == {elements[i].tag : i \in 1..Len(elements)}

\* The content of an element with a text or without anything.
TextContent(e) == IF e.text = <<>> THEN JsonNull ELSE JsonString(e.text)

\* The content of elements that hold texts: under each tag of the array
\* set the array of its texts, under each other tag its last text.
TextsContent(elements) ==
    JsonObject([t \in TagsOf(elements) |->
        LET occurrences == Occurrences(elements, t) IN
        IF t \in arrayElements
        THEN JsonArray([i \in 1..Len(occurrences) |->
                           TextContent(occurrences[i])])
        ELSE TextContent(occurrences[Len(occurrences)])])

\* The content of an element of the root.
ContentOf(e) ==
    IF e.children # <<>> THEN TextsContent(e.children) ELSE TextContent(e)

\* The array the claim describes for the occurrences of a tag.
CollectedArray(occurrences) ==
    JsonArray([i \in 1..Len(occurrences) |-> ContentOf(occurrences[i])])

\* The place in the tree of the i-th element of the root: the member of its
\* tag or, for a tag of the array set, that array's element for it.
SlotOf(i) ==
    LET tag == xmlElements[i].tag
        member == Member(scanner.json, tag)
    IN  IF tag \in arrayElements
        THEN member.elements[Len(Occurrences(SubSeq(xmlElements, 1, i), tag))]
        ELSE member

\* The arrays of the root are as described.
RootArraysCollected ==
    \A tag \in arrayElements :
        LET occurrences == Occurrences(xmlElements, tag) IN
        occurrences # <<>> =>
            Member(scanner.json, tag) = CollectedArray(occurrences)

RECURSIVE ChildrenOfAll(_, _)
ChildrenOfAll(elements, tag) ==
    IF elements = <<>> THEN <<>>
    ELSE (IF Head(elements).tag = tag THEN Head(elements).children ELSE <<>>)
             \o ChildrenOfAll(Tail(elements), tag)

\* The elements filed where those of the i-th element of the root are.
FiledWith(i) ==
    IF xmlElements[i].tag \in arrayElements
    THEN xmlElements[i].children
    ELSE ChildrenOfAll(xmlElements, xmlElements[i].tag)

HeaderValues(req, name) ==
    LET named(h) == h.name = name
        found == SelectSeq(req.headers, named)
    IN  [i \in 1..Len(found) |-> found[i].value]

\* The request as it was before the signature's headers were added.
BeforeSigning(req) == [req EXCEPT !.headers = SubSeq(@, 1, 2)]

\* The step hands a request to the client.
RequestHandedOver == transaction.state = "None" /\ transaction'.state # "None"

C13_SignedBeforeSent ==
    [][RequestHandedOver =>
        /\ signing # NotSigned
        /\ signing.canonicalRequest =
               ConstructCanonicalRequest(
                   Generate(BeforeSigning(transaction'.request)))
        /\ signing.canonicalRequest # <<>>
        /\ signing.stringToSign =
               MakeStringToSign(impl.region, <<"s", "3">>, signing.canonicalRequest)
        /\ signing.authorization =
               MakeAuthorization(signing.stringToSign,
                                 signing.canonicalRequest, impl.accessKeyId,
                                 impl.secretAccessKey)
        /\ HeaderValues(transaction'.request, <<"A", "u", "t", "h", "o", "r", "i", "z", "a", "t", "i", "o", "n">>) =
               <<signing.authorization>>
        /\ HeaderValues(transaction'.request, <<"x", "-", "a", "m", "z", "-", "d", "a", "t", "e">>) = <<amzDate>>
        /\ HeaderValues(transaction'.request, <<"x", "-", "a", "m", "z", "-", "c", "o", "n", "t", "e", "n", "t", "-", "s", "h", "a", "2", "5", "6">>) =
               <<Sha256StringToString(<<>>)>>]_vars

\* The client holds the request for a second page of ListObjects, made with
\* a session token.
C13_Witness ==
    /\ operation = "ListObjects"
    /\ transaction.state = "InProgress"
    /\ continuationToken # <<>>
    /\ impl.sessionToken # <<>>
    /\ HeaderValues(transaction.request, <<"A", "u", "t", "h", "o", "r", "i", "z", "a", "t", "i", "o", "n">>) # <<>>

(***************************************************************************)
(* C14.  In every S3 operation the response body is given to XmlToJson or  *)
(* copied into the result only after AwaitCompletion has returned and with *)
(* the transaction Completed; the body of a transaction that ends in       *)
(* another state is never transcoded or read.                              *)
(***************************************************************************)

\* What a result holds besides the state, the status and the headers of the
\* transaction.
Payload(res) ==
    <<res.owner, res.buckets, res.objects, res.content, res.errorInfo>>

\* AwaitCompletion has returned and the thread is about to read the
\* transaction.
AwaitReturned == s3Pc = "respond"

C14_BodyReadOnlyWhenCompleted ==
    [][/\ (bodyUse = "none" /\ bodyUse' # "none") =>
              (AwaitReturned /\ transaction.state = "Completed")
       /\ (AwaitReturned /\ transaction.state # "Completed") =>
              (bodyUse' = "none" /\ Payload(result') = Payload(result))]_vars

\* ListObjects has transcoded the body of a page with an entry, after a
\* first page.
C14_Witness ==
    /\ operation = "ListObjects"
    /\ bodyUse = "transcoded"
    /\ continuationToken # <<>>
    /\ Len(result.objects) = 2
    /\ transaction.response.statusCode = 200

(***************************************************************************)
(* C15.  The future returned by ListBuckets, ListObjects or GetObject is   *)
(* never ready while the operation's HTTP transaction is in progress: it   *)
(* becomes ready only after the request has been given to the client and   *)
(* that transaction has ended.                                             *)
(***************************************************************************)

\* The future is ready: it holds a result or an exception.
FutureReady == future \in {"ready", "exception"}

C15_NotReadyWhileInProgress ==
    /\ transaction.state = "InProgress" => future = "pending"
    /\ FutureReady => transaction.state \notin {"None", "InProgress"}

\* The future is ready after a transaction that did not complete.
C15_Witness ==
    /\ future = "ready"
    /\ transaction.state = "Timeout"
    /\ result.transactionState = "Timeout"

(***************************************************************************)
(* C17.  When ListObjects finishes, result.objects is the concatenation,   *)
(* in request order and document order, of the Contents entries of every   *)
(* status-200 response received, and statusCode and transactionState are   *)
(* those of the last request made; objects from earlier pages are kept     *)
(* even when a later page fails.                                           *)
(***************************************************************************)

\* ListObjects has returned its result.
ListObjectsFinished == operation = "ListObjects" /\ future = "ready"

\* "&quot;", as S3 writes the quotes around an ETag.
QUOT == <<"&", "q", "u", "o", "t", ";">>

\* An ETag without the quote it starts with and the quote it ends with.
Unquoted(eTag) ==
    LET start == IF Len(eTag) >= 6 /\ SubSeq(eTag, 1, 6) = QUOT
                 THEN SubSeq(eTag, 7, Len(eTag))
                 ELSE eTag
    IN  IF Len(start) >= 6 /\ SubSeq(start, Len(start) - 5, Len(start)) = QUOT
        THEN SubSeq(start, 1, Len(start) - 6)
        ELSE start

\* The object a Contents entry describes.
DescribedObject(entry) ==
    [key |-> entry.key,
     lastModified |-> TimeOf(entry.lastModified),
     eTag |-> Unquoted(entry.eTag),
     size |-> IF entry.size = <<>> THEN 0 ELSE DecimalValue(entry.size)]

C17_ObjectsOfAllPages ==
    ListObjectsFinished =>
        /\ result.objects =
               [i \in 1..Len(served.entries) |->
                   DescribedObject(served.entries[i])]
        /\ result.statusCode = transaction.response.statusCode
        /\ result.transactionState = transaction.state

\* ListObjects has returned the objects of two pages after a third
\* transaction that did not complete.
C17_Witness ==
    /\ ListObjectsFinished
    /\ Len(result.objects) = 2
    /\ result.objects[1].key # result.objects[2].key
    /\ transaction.state = "Broken"
    /\ HeaderValues(transaction.request, <<"H", "o", "s", "t">>) # <<>>
    /\ transaction.request.queryParts[2] = <<"c", "o", "n", "t", "i", "n", "u", "a", "t", "i", "o", "n", "-", "t", "o", "k", "e", "n", "=", "t", "1">>

(***************************************************************************)
(* C18.  As claimed: for ListBuckets, ListObjects and GetObject, errorInfo *)
(* is set (to the transcoded response body) exactly when the last          *)
(* transaction reached Completed with a status code other than 200, and in *)
(* that case no buckets, objects or content are taken from that response;  *)
(* when the transaction does not reach Completed, neither the payload      *)
(* fields nor errorInfo are set and only transactionState and statusCode   *)
(* are reported.                                                           *)
(***************************************************************************)

\* The operation has returned its result.
Finished == future = "ready"

\* The last transaction completed with a status other than 200.
CompletedWithError ==
    transaction.state = "Completed" /\ transaction.response.statusCode # 200

\* errorInfo is set exactly for an error, to the transcoded body, and then
\* nothing else is taken from the response.
ErrorInfoForErrors ==
    /\ result.errorInfo # JsonNull <=> CompletedWithError
    /\ CompletedWithError =>
           /\ result.errorInfo = XmlToJson(transaction.response.body, {})
           /\ result.buckets = <<>>
           /\ result.owner = NewResult.owner
           /\ result.content = <<>>
           /\ Len(result.objects) = Len(served.entries)

C18_OnlyStateAndStatusReported ==
    Finished =>
        /\ ErrorInfoForErrors
        /\ transaction.state # "Completed" =>
               result = [NewResult EXCEPT
                            !.transactionState = transaction.state,
                            !.statusCode = transaction.response.statusCode]

(***************************************************************************)
(* C18, amended.  For ListBuckets, ListObjects and GetObject, errorInfo is *)
(* set (to the transcoded response body) exactly when the last transaction *)
(* reached Completed with a status code other than 200, and in that case   *)
(* no buckets, objects or content are taken from that response; when the   *)
(* last transaction does not reach Completed, errorInfo is not set and     *)
(* nothing is taken from its body: owner, buckets and content stay empty   *)
(* and objects holds the entries of the earlier pages only; GetObject      *)
(* copies the response headers of the transaction whatever its state.      *)
(***************************************************************************)

C18_NothingTakenFromBody ==
    Finished =>
        /\ ErrorInfoForErrors
        /\ transaction.state # "Completed" =>
               result = [NewResult EXCEPT
                            !.transactionState = transaction.state,
                            !.statusCode = transaction.response.statusCode,
                            !.objects = [i \in 1..Len(served.entries) |->
                                            DescribedObject(served.entries[i])],
                            !.headers = IF operation = "GetObject"
                                        THEN transaction.response.headers
                                        ELSE <<>>]

\* ListObjects has returned after an error on its second page.
C18_Witness ==
    /\ Finished
    /\ operation = "ListObjects"
    /\ CompletedWithError
    /\ transaction.response.body # <<>>
    /\ result.objects # <<>>

(***************************************************************************)
(* C16.  As claimed: if every transaction the operation issues eventually  *)
(* completes, the future returned by ListBuckets, ListObjects or GetObject *)
(* eventually becomes ready with a result; for ListObjects the loop that   *)
(* fetches the pages terminates.                                           *)
(***************************************************************************)

C16_EventuallyReadyWithResult == (future = "pending") ~> (future = "ready")

(***************************************************************************)
(* C16, amended.  If every transaction the operation issues eventually     *)
(* completes, the future returned by ListBuckets, ListObjects or GetObject *)
(* eventually becomes ready, unless the server goes on for ever answering  *)
(* ListObjects with truncated pages that carry a continuation token; the   *)
(* future then holds a result, or the std::out_of_range exception when a   *)
(* listed ETag is shorter than 6 characters.                               *)
(***************************************************************************)

\* The last page the server sent is truncated and carries a token.
MoreAnnounced == served.truncated

\* The server has sent an entry with an ETag shorter than 6 characters.
ShortETagServed ==
    \E i \in 1..Len(served.entries) : Len(served.entries[i].eTag) < 6

C16_EventuallyReadyUnlessPagesForEver ==
    /\ [](future = "exception" => ShortETagServed)
    /\ []((FutureReady /\ ~ShortETagServed) => future = "ready")
    /\ ([]<>MoreAnnounced) \/ ((future = "pending") ~> FutureReady)

\* The future of ListObjects is ready with a result after a second page
\* that ended the listing.
C16_Witness ==
    /\ ListObjectsFinished
    /\ transaction.state = "Completed"
    /\ transaction.response.statusCode = 200
    /\ Len(transaction.request.queryParts) = 2
    /\ transaction.request.queryParts[2] = <<"c", "o", "n", "t", "i", "n", "u", "a", "t", "i", "o", "n", "-", "t", "o", "k", "e", "n", "=", "t", "1">>
    /\ ~MoreAnnounced

(***************************************************************************)
(* C21.  MakeStringToSign and MakeAuthorization are total: for every       *)
(* input, the empty canonical request of a failed ConstructCanonicalRequest*)
(* included, they return a string, and no call reads an element past the   *)
(* end of the vector a Split returned.                                     *)
(***************************************************************************)

\* MakeAuthorization is about to be called or has been called.
AuthorizationCalled == pc \in {"signed", "done", "crashed"}

C21_NoReadPastTheEnd ==
    /\ pc # "crashed"
    /\ AuthorizationCalled =>
           MakeAuthorizationInBounds(stringToSign, canonicalRequest)

(***************************************************************************)
(* C22.  As claimed: when XmlToJson opens a tag whose name is in the array *)
(* set, it makes the parent slot (the container on top of the stack, or    *)
(* the root when the stack is empty) an array, appends one new empty slot  *)
(* to that array, and pushes the new slot as the current container.        *)
(***************************************************************************)

\* The character the scanner reads next ends an opening tag.
OpensTag ==
    /\ xmlPc = "scan"
    /\ position < Len(xml)
    /\ scanner.state = "Tag"
    /\ xml[position + 1] = ">"

OpensArrayTag == OpensTag /\ scanner.data \in arrayElements

\* The elements of an array, none for a value that is not one.
ElementsOf(json) == IF json.type = "Array" THEN json.elements ELSE <<>>

C22_ParentMadeArray ==
    [][OpensArrayTag =>
         LET parent == XmlParent(scanner)
             before == GetAt(scanner.json, parent)
             after == GetAt(scanner'.json, parent)
         IN  /\ after.type = "Array"
             /\ after.elements = Append(ElementsOf(before), JsonNull)
             /\ scanner'.elements =
                    Append(scanner.elements,
                           parent \o <<Len(after.elements)>>)]_vars

(***************************************************************************)
(* C22, amended.  When XmlToJson opens a tag whose name is in the array    *)
(* set, it makes the parent (the container on top of the stack, or the     *)
(* root when the stack is empty) an object unless it is one, makes the     *)
(* member of that object named by the tag an array unless it is one,       *)
(* appends one new null element to that array and pushes the new element   *)
(* as the current container; the other members of the parent, the elements *)
(* the array had and the rest of the tree stay as they are.                *)
(***************************************************************************)

\* The members of an object, none for a value that is not one.
MembersOf(json) ==
    IF json.type = "Object" THEN json.members ELSE EmptyObject.members

C22_MemberMadeArray ==
    [][OpensArrayTag =>
         LET parent == XmlParent(scanner)
             tag == scanner.data
             before == GetAt(scanner.json, parent)
             after == GetAt(scanner'.json, parent)
             array == after.members[tag]
         IN  /\ after.type = "Object"
             /\ DOMAIN after.members = (DOMAIN MembersOf(before)) \cup {tag}
             /\ \A k \in (DOMAIN after.members) \ {tag} :
                    after.members[k] = before.members[k]
             /\ array.type = "Array"
             /\ array.elements =
                    Append(ElementsOf(Member(before, tag)), JsonNull)
             /\ scanner'.elements =
                    Append(scanner.elements,
                           parent \o <<tag, Len(array.elements)>>)
             /\ scanner'.json = SetAt(scanner.json, parent, after)
             /\ scanner'.state = "TagBeginOrContent"]_vars

\* The array tag has just been opened for the second time in an element
\* that holds another member: the new element is the second of the array.
C22_Witness ==
    /\ xmlPc = "scan"
    /\ position > 0
    /\ xml[position] = ">"
    /\ scanner.state = "TagBeginOrContent"
    /\ arrayElements = {<<"A">>}
    /\ Len(scanner.elements) = 2
    /\ Len(XmlParent(scanner)) = 3
    /\ XmlParent(scanner)[1] = <<"C">>
    /\ XmlParent(scanner)[3] = 2
    /\ GetAt(scanner.json, XmlParent(scanner)) = JsonNull
    /\ DOMAIN GetAt(scanner.json, <<<<"C">>>>).members = {<<"A">>, <<"B">>}

(***************************************************************************)
(* C23.  As claimed: when XmlToJson opens a tag that is not in the array   *)
(* set, the parent becomes an object and the child slot named by the tag   *)
(* is created or overwritten: a child of that name the parent already      *)
(* holds has its previous value replaced, so that after parsing the slot   *)
(* holds only the content of the last occurrence.                          *)
(***************************************************************************)

OpensOtherTag == OpensTag /\ scanner.data \notin arrayElements

\* The tags of the root's elements that are not in the array set.
OtherRootTags == TagsOf(xmlElements) \ arrayElements

\* The last of the root's elements that carry the tag.
LastOccurrence(tag) ==
    LET occurrences == Occurrences(xmlElements, tag)
    IN  occurrences[Len(occurrences)]

C23_SlotOverwritten ==
    /\ [][OpensOtherTag =>
            GetAt(scanner'.json, XmlParent(scanner') ) = JsonNull]_vars
    /\ [](XmlDone =>
            \A tag \in OtherRootTags :
                Member(scanner.json, tag) = ContentOf(LastOccurrence(tag)))

(***************************************************************************)
(* C23, amended.  When XmlToJson opens a tag that is not in the array set, *)
(* the parent becomes an object unless it is one, and the child slot named *)
(* by the tag is created, null, when the parent holds none; a slot already *)
(* there is kept with its value, and either way the slot is pushed as the  *)
(* current container.  A previous value is replaced only by what the new   *)
(* occurrence writes: after parsing, a slot of the root whose occurrences  *)
(* hold only texts holds the text of the last occurrence that is not       *)
(* empty, and null when all are empty.                                     *)
(***************************************************************************)

\* The text of the last element of the sequence that has one, as a value.
RECURSIVE LastText(_)
LastText(elements) ==
    IF elements = <<>> THEN JsonNull
    ELSE IF elements[Len(elements)].text # <<>>
    THEN JsonString(elements[Len(elements)].text)
    ELSE LastText(SubSeq(elements, 1, Len(elements) - 1))

\* Every element of the sequence holds a text or nothing.
OnlyTexts(elements) ==
    \A i \in 1..Len(elements) : elements[i].children = <<>>

C23_SlotKept ==
    /\ [][OpensOtherTag =>
            LET parent == XmlParent(scanner)
                tag == scanner.data
                before == GetAt(scanner.json, parent)
                after == GetAt(scanner'.json, parent)
            IN  /\ after.type = "Object"
                /\ DOMAIN after.members =
                       (DOMAIN MembersOf(before)) \cup {tag}
                /\ \A k \in DOMAIN MembersOf(before) :
                       after.members[k] = before.members[k]
                /\ tag \notin DOMAIN MembersOf(before) =>
                       after.members[tag] = JsonNull
                /\ scanner'.elements =
                       Append(scanner.elements, parent \o <<tag>>)
                /\ scanner'.json = SetAt(scanner.json, parent, after)
                /\ scanner'.state = "TagBeginOrContent"]_vars
    /\ [](XmlDone =>
            \A tag \in OtherRootTags :
                LET occurrences == Occurrences(xmlElements, tag) IN
                OnlyTexts(occurrences) =>
                    Member(scanner.json, tag) = LastText(occurrences))

\* A document whose root holds a tag outside the array set with a text,
\* another tag, and the first tag again, empty: the slot holds the text of
\* the first.
C23_Witness ==
    /\ XmlDone
    /\ arrayElements = {<<"C">>}
    /\ xmlElements = << TextElement(<<"A">>, <<"x">>),
                        TextElement(<<"B">>, <<"z">>),
                        TextElement(<<"A">>, <<>>) >>
    /\ Member(scanner.json, <<"A">>) = JsonString(<<"x">>)

(***************************************************************************)
(* C24.  For an element whose body is only text, XmlToJson sets the value  *)
(* of that element to exactly the characters between the ">" of its        *)
(* opening tag and the next "<", verbatim, replacing whatever value the    *)
(* element held before, and the closing tag that follows pops exactly that *)
(* element.                                                                *)
(***************************************************************************)

\* The character the scanner reads next is the "<" that ends a text.
EndsText ==
    /\ xmlPc = "scan"
    /\ position < Len(xml)
    /\ scanner.state = "Content"
    /\ xml[position + 1] = "<"

\* The character the scanner reads next is in a closing tag.
InClosingTag ==
    /\ xmlPc = "scan"
    /\ position < Len(xml)
    /\ scanner.state = "TagEnd"

\* The place of the last "<" of the document up to the place given.
LastOpening(place) ==
    CHOOSE i \in 1..place :
        xml[i] = "<" /\ \A j \in (i + 1)..place : xml[j] # "<"

\* The place of the first ">" of the document after the place given.
FirstClosing(place) ==
    CHOOSE i \in (place + 1)..Len(xml) :
        xml[i] = ">" /\ \A j \in (place + 1)..(i - 1) : xml[j] # ">"

\* The characters of the document from the end of the last opening tag to
\* the place given.
TextUpTo(place) ==
    SubSeq(xml, FirstClosing(LastOpening(place)) + 1, place)

\* The stack without its top.
Popped(elements) == SubSeq(elements, 1, Len(elements) - 1)

C24_TextVerbatim ==
    /\ [][EndsText =>
            /\ scanner.elements # <<>>
            /\ TextUpTo(position) # <<>>
            /\ scanner'.json =
                   SetAt(scanner.json,
                         scanner.elements[Len(scanner.elements)],
                         JsonString(TextUpTo(position)))
            /\ scanner'.elements = scanner.elements
            /\ scanner'.state = "TagEnd"]_vars
    /\ [][InClosingTag =>
            /\ scanner'.json = scanner.json
            /\ IF xml[position + 1] # ">"
               THEN scanner' = scanner
               ELSE scanner.elements # <<>> =>
                        /\ scanner'.elements = Popped(scanner.elements)
                        /\ scanner'.state = "TagBegin"]_vars

\* The text of an element has just been set whose tag held an element
\* before.
C24_Witness ==
    /\ xmlPc = "scan"
    /\ scanner.state = "TagEnd"
    /\ position > 14
    /\ xml[position] = "<"
    /\ SubSeq(xml, 9, 14) = <<"<", "B", ">", "<", "A", ">">>
    /\ Member(scanner.json, <<"B">>) = JsonString(<<"t">>)

(***************************************************************************)
(* C25.  For well-formed input without attributes and without text between *)
(* sibling tags, after every character the depth of XmlToJson's stack is   *)
(* the number of elements open below the root element at that place of the *)
(* document: every opening tag pushes one entry and every closing tag pops *)
(* one, those of empty elements included.                                  *)
(***************************************************************************)

\* The number of characters of an element as written.
Written(e) == Len(XmlText(<<e>>))

\* The number of the elements written one after the other, and of those in
\* them, that are open after the first p characters: an element is open
\* from the ">" of its opening tag to the character before the ">" of its
\* closing tag.
RECURSIVE OpenAt(_, _)
OpenAt(elements, p) ==
    IF elements = <<>> THEN 0
    ELSE LET e == Head(elements)
             opening == Len(e.tag) + 2
         IN  IF p >= Written(e) THEN OpenAt(Tail(elements), p - Written(e))
             ELSE IF p < opening THEN 0
             ELSE 1 + OpenAt(e.children, p - opening - Len(e.text))

\* The number of elements open below the root element after the first p
\* characters of the document.
OpenBelowRoot(p) ==
    LET before == Len(XmlDocument(<<>>)) - 4
    IN  IF p <= before THEN 0 ELSE OpenAt(xmlElements, p - before)

C25_DepthIsOpenElements ==
    Len(scanner.elements) = OpenBelowRoot(position)

\* The scanner is in the closing tag of an empty element, the first of the
\* root, with that element on its stack.
C25_Witness ==
    /\ xmlPc = "scan"
    /\ Len(xmlElements) = 2
    /\ xmlElements[1] = TextElement(<<"A">>, <<>>)
    /\ position = 13
    /\ scanner.state = "TagEnd"
    /\ Len(scanner.elements) = 1

(***************************************************************************)
(* C26.  As claimed: the state of XmlToJson's scanner only moves along     *)
(* Header -> Document -> {TagBegin, Tag, TagBeginOrContent, Content} ->    *)
(* TagEnd -> End: Header and Document are never entered again once left,   *)
(* End is entered only from TagEnd when the stack is empty, and End is     *)
(* absorbing: no later character changes the state or the tree.            *)
(***************************************************************************)

\* The states in which the scanner reads the tags and texts of elements.
InElements == {"TagBegin", "Tag", "TagBeginOrContent", "Content"}

\* The place of a state along the chain.
PlaceAlong(state) ==
    CASE state = "Header" -> 1
      [] state = "Document" -> 2
      [] state \in InElements -> 3
      [] state = "TagEnd" -> 4
      [] state = "End" -> 5

\* End is entered only from TagEnd with the stack empty, and never left;
\* in it nothing changes.
EndIsLast ==
    /\ (scanner'.state = "End" /\ scanner.state # "End") =>
           scanner.state = "TagEnd" /\ scanner.elements = <<>>
    /\ scanner.state = "End" => scanner' = scanner

C26_StateMovesForward ==
    [][/\ PlaceAlong(scanner'.state) >= PlaceAlong(scanner.state)
       /\ EndIsLast]_vars

(***************************************************************************)
(* C26, amended.  The state of XmlToJson's scanner moves along Header ->   *)
(* Document -> {TagBegin, Tag, TagBeginOrContent, Content} -> TagEnd ->    *)
(* End, except that TagEnd goes back to TagBegin at the ">" of every       *)
(* closing tag that finds the stack not empty: Header and Document are     *)
(* never entered again once left, End is entered only from TagEnd when the *)
(* stack is empty, and End is absorbing: no later character changes the    *)
(* state or the tree.                                                      *)
(***************************************************************************)

C26_StateMovesForwardButAfterClosingTag ==
    [][/\ \/ PlaceAlong(scanner'.state) >= PlaceAlong(scanner.state)
          \/ /\ scanner.state = "TagEnd"
             /\ scanner'.state = "TagBegin"
             /\ xml[position + 1] = ">"
             /\ scanner.elements # <<>>
       /\ scanner.state = "Header" => scanner'.state \in {"Header", "Document"}
       /\ scanner.state = "Document" =>
              scanner'.state \in {"Document", "TagBegin"}
       /\ EndIsLast]_vars

\* The scanner has read a character after the one that ended the scan, with
\* more to read.
C26_Witness ==
    /\ xmlPc = "scan"
    /\ scanner.state = "End"
    /\ position > 0
    /\ position < Len(xml)
    /\ xml[position] = "l"
    /\ scanner.json # EmptyObject

(***************************************************************************)
(* C27.  For every input string, documents that are unbalanced, cut off or *)
(* written with self-closing tags included, XmlToJson reads each character *)
(* exactly once, never pops an empty stack, reports no error and returns a *)
(* tree.                                                                   *)
(***************************************************************************)

\* The character the scanner reads next is the ">" of a closing tag.
ClosesTag == InClosingTag /\ xml[position + 1] = ">"

C27_EveryInputGivesTree ==
    /\ [](xmlPc = "scan" => position <= Len(xml))
    /\ [][xmlPc = "scan" =>
            IF position < Len(xml)
            THEN /\ position' = position + 1
                 /\ xmlPc' = "scan"
            ELSE xmlPc' = "done" /\ scanner' = scanner]_vars
    /\ [][(ClosesTag /\ scanner.elements = <<>>) =>
            scanner' = [scanner EXCEPT !.state = "End"]]_vars
    /\ [](XmlDone =>
            /\ position = Len(xml)
            /\ scanner.json.type = "Object")
    /\ [](scanner.state \in InElements \cup
                            {"Header", "Document", "TagEnd", "End"})

\* XmlToJson has returned the tree of a document that closes a tag it never
\* opened and goes on after it.
C27_Witness ==
    /\ XmlDone
    /\ scanner.state = "End"
    /\ position > 20
    /\ SubSeq(xml, 9, 12) = <<"<", "/", "B", ">">>
    /\ scanner.json = EmptyObject

(***************************************************************************)
(* C28.  XmlToJson discards everything up to and including the second ">"  *)
(* of the input, the XML declaration and the opening tag of the root       *)
(* element: the name of the root element never appears in the tree, and    *)
(* the elements of the root become the top-level keys of the object        *)
(* returned.                                                               *)
(***************************************************************************)

\* The place of the second ">" of the document.
SecondClosing == FirstClosing(FirstClosing(0))

\* The name of the root element, read from the document.
RootName ==
    SubSeq(xml, FirstClosing(0) + 2, SecondClosing - 1)

\* The names of the members of a value and of the values in it.
RECURSIVE KeysIn(_)
KeysIn(json) ==
    IF json.type = "Object"
    THEN (DOMAIN json.members)
             \cup UNION {KeysIn(json.members[k]) : k \in DOMAIN json.members}
    ELSE IF json.type = "Array"
    THEN UNION {KeysIn(json.elements[i]) : i \in 1..Len(json.elements)}
    ELSE {}

\* The scanner as it is after the second ">", whatever came before it.
AfterRootTag ==
    [state |-> "TagBegin", data |-> <<>>, elements |-> <<>>,
     json |-> EmptyObject]

C28_DeclarationAndRootDiscarded ==
    /\ position <= SecondClosing =>
           /\ scanner.json = EmptyObject
           /\ scanner.elements = <<>>
           /\ scanner.data = <<>>
    /\ position = SecondClosing => scanner = AfterRootTag
    /\ RootName \notin KeysIn(scanner.json)
    /\ XmlDone =>
           /\ scanner.json.type = "Object"
           /\ DOMAIN scanner.json.members = TagsOf(xmlElements)

\* XmlToJson has returned an object with the three tags of the root's
\* elements as its keys.
C28_Witness ==
    /\ XmlDone
    /\ RootName = <<"R">>
    /\ Len(xmlElements) = 3
    /\ DOMAIN scanner.json.members = {<<"A">>, <<"B">>, <<"C">>}

(***************************************************************************)
(* C29.  As claimed: ListObjects sends its first request with the query    *)
(* "list-type=2" only; it sends a further request exactly when the last    *)
(* response was Completed with status 200, IsTruncated "true" and a        *)
(* NextContinuationToken that is not empty, and that request carries       *)
(* continuation-token equal to that token; in every other case no further  *)
(* request is sent.                                                        *)
(***************************************************************************)

\* ListObjects hands a request to the client.
ListObjectsSends == operation = "ListObjects" /\ RequestHandedOver

\* ListObjects has read no response yet.
NothingReadYet == result.transactionState = "InProgress"

\* ListObjects ends a turn of its loop.
ListObjectsEndsTurn ==
    operation = "ListObjects" /\ s3Pc = "respond" /\ s3Pc' # "respond"

\* The query of the request: list-type=2, and the token if there is one.
QueryWith(token) ==
    << <<"l", "i", "s", "t", "-", "t", "y", "p", "e", "=", "2">> >> \o
    (IF token = <<>> THEN <<>>
     ELSE << <<"c", "o", "n", "t", "i", "n", "u", "a", "t", "i", "o", "n", "-", "t", "o", "k", "e", "n", "=">> \o token >>)

\* What is sent is as claimed: the first request without a token, a further
\* one after a truncated page and with its token, and none once the loop
\* is left.
RequestsAsClaimed ==
    /\ ListObjectsSends =>
           IF NothingReadYet
           THEN transaction'.request.queryParts = QueryWith(<<>>)
           ELSE /\ MoreAnnounced
                /\ served.token # <<>>
                /\ transaction'.request.queryParts = QueryWith(served.token)
    /\ s3Pc \in {"return", "thrown", "done"} =>
           /\ transaction' = transaction
           /\ s3Pc' \in {"return", "thrown", "done"}

C29_FurtherRequestIffTruncated ==
    [][/\ RequestsAsClaimed
       /\ ListObjectsEndsTurn => (s3Pc' = "build" <=> MoreAnnounced)]_vars

(***************************************************************************)
(* C29, amended.  ListObjects sends its first request with the query       *)
(* "list-type=2" only; it sends a further request exactly when the last    *)
(* response was Completed with status 200, IsTruncated "true" and a        *)
(* NextContinuationToken that is not empty, and no Contents entry of that  *)
(* response has an ETag shorter than 6 characters; that request carries    *)
(* continuation-token equal to that token; in every other case no further  *)
(* request is sent (a short ETag ends the operation with an exception).    *)
(***************************************************************************)

\* The Contents entries of the last response.
LastPage ==
    SubSeq(served.entries, Len(result.objects) + 1, Len(served.entries))

\* An entry of the last response has an ETag shorter than 6 characters.
ShortETagInLastPage ==
    \E i \in 1..Len(LastPage) : Len(LastPage[i].eTag) < 6

C29_FurtherRequestIffTruncatedAndRead ==
    [][/\ RequestsAsClaimed
       /\ ListObjectsEndsTurn =>
              /\ s3Pc' = "build" <=> (MoreAnnounced /\ ~ShortETagInLastPage)
              /\ s3Pc' = "thrown" <=> ShortETagInLastPage
              /\ s3Pc' \in {"build", "return", "thrown"}]_vars

\* ListObjects has sent its second request, with the token of a first page
\* that held an object.
C29_Witness ==
    /\ operation = "ListObjects"
    /\ transaction.state = "InProgress"
    /\ served.token = <<"t", "1">>
    /\ result.objects # <<>>
    /\ transaction.request.queryParts = QueryWith(<<"t", "1">>)

(***************************************************************************)
(* C30.  The headers covered by the signature of a ListBuckets,            *)
(* ListObjects or GetObject request are exactly the headers present when   *)
(* the canonical request is built, Host and x-amz-date: Authorization,     *)
(* x-amz-content-sha256 and x-amz-security-token are added after signing   *)
(* and never appear in the SignedHeaders list of the Authorization value   *)
(* that is sent.                                                           *)
(***************************************************************************)

\* The client has been handed a request.
RequestSent == transaction.state # "None"

\* The names in the SignedHeaders list of an Authorization value: what
\* stands between "SignedHeaders=" and the next ",", split at ";".
SignedHeaderNames(value) ==
    LET piece == Split(value, ",")[2]
        list == SubstrFrom(piece, Find(piece, "=") + 1)
        names == Split(list, ";")
    IN  {names[i] : i \in 1..Len(names)}

\* The names of the headers of a request, in lower case.
HeaderNames(req) ==
    {ToLower(req.headers[i].name) : i \in 1..Len(req.headers)}

\* The headers added after signing.
AddedAfterSigning ==
    {<<"a", "u", "t", "h", "o", "r", "i", "z", "a", "t", "i", "o", "n">>, <<"x", "-", "a", "m", "z", "-", "c", "o", "n", "t", "e", "n", "t", "-", "s", "h", "a", "2", "5", "6">>, <<"x", "-", "a", "m", "z", "-", "s", "e", "c", "u", "r", "i", "t", "y", "-", "t", "o", "k", "e", "n">>}

C30_SignedHeadersAreHostAndDate ==
    RequestSent =>
        LET sent == transaction.request
            authorizations == HeaderValues(sent, <<"A", "u", "t", "h", "o", "r", "i", "z", "a", "t", "i", "o", "n">>)
        IN  /\ Len(authorizations) = 1
            /\ SignedHeaderNames(authorizations[1]) = {<<"h", "o", "s", "t">>, <<"x", "-", "a", "m", "z", "-", "d", "a", "t", "e">>}
            /\ SignedHeaderNames(authorizations[1]) =
                   HeaderNames(BeforeSigning(sent))
            /\ SignedHeaderNames(authorizations[1]) \cap AddedAfterSigning = {}
            /\ HeaderNames(sent) \ SignedHeaderNames(authorizations[1]) =
                   IF impl.sessionToken = <<>>
                   THEN {<<"a", "u", "t", "h", "o", "r", "i", "z", "a", "t", "i", "o", "n">>, <<"x", "-", "a", "m", "z", "-", "c", "o", "n", "t", "e", "n", "t", "-", "s", "h", "a", "2", "5", "6">>}
                   ELSE AddedAfterSigning
            /\ Len(sent.headers) = Cardinality(HeaderNames(sent))

\* GetObject has sent a request with a security token.
C30_Witness ==
    /\ operation = "GetObject"
    /\ RequestSent
    /\ HeaderValues(transaction.request, <<"x", "-", "a", "m", "z", "-", "s", "e", "c", "u", "r", "i", "t", "y", "-", "t", "o", "k", "e", "n">>) = << <<"t", "o", "k">> >>
    /\ HeaderValues(transaction.request, <<"x", "-", "a", "m", "z", "-", "c", "o", "n", "t", "e", "n", "t", "-", "s", "h", "a", "2", "5", "6">>) # <<>>

=============================================================================
